---- MODULE Spec2Model ----
(***************************************************************************)
(* Titan market-data engine: the SPSC ring channel (queue/spsc_queue.hpp), *)
(* the feed synchronisation state machine (binance FeedHandler), the order *)
(* book replica (orderbook/order_book.cpp) and the compute core            *)
(* (engine/market_data_engine.cpp).                                        *)
(*                                                                         *)
(* SpecSpsc : one producer and one consumer on the ring, one atomic load   *)
(*            or store per step.                                           *)
(* SpecFeed : the feed handler with its upstream WS clients, REST requests *)
(*            and public interface; each step records the handler that ran *)
(*            and what it emitted.                                         *)
(* Spec     : feed handler + upstream WS clients + REST requests + the     *)
(*            event queue + the compute core, one handler per step.        *)
(* SpecRun  : MarketDataEngine::run() - the network thread's loop and      *)
(*            cleanup, the engine thread's loop, request_shutdown().       *)
(* SpecBroadcast : output WebSocketServer - broadcast() on the compute     *)
(*            thread, the sessions' write queues, the server's io thread.  *)
(* SpecTrade : TradeFlow with its VwapCalculator and AlertDetector, driven  *)
(*            by handle_agg_trade; doubles are exact rationals.            *)
(* SpecReconnect : ReconnectStrategy with 64-bit millisecond counts.       *)
(* SpecCore : the compute core's handlers and output_metrics() driven by   *)
(*            arbitrary messages.                                          *)
(* SpecBook : OrderBook's member functions called with arbitrary arguments.*)
(***************************************************************************)
EXTENDS Integers, Sequences, FiniteSets, TLC

\* ------------------------------------------------------------------ bounds

\* log2 of the ring capacity of the SpecSpsc model (Capacity is a power of 2)
CapacityBits == 1
\* number of try_push calls the producer makes in SpecSpsc
MaxPush == 7

\* ------------------------------------------------------------ SPSC state

VARIABLES
    head_,      \* SpscQueue::head_  (consumer index)
    tail_,      \* SpscQueue::tail_  (producer index)
    slot_seq,   \* slots_[i].sequence
    slot_val,   \* slots_[i].storage (NoValue: no live object)
    p_pc,       \* producer's position inside try_push
    p_pos,      \* try_push local pos
    p_seq,      \* try_push local seq
    p_val,      \* the value being pushed
    p_calls,    \* try_push calls started so far (also the next value)
    c_pc,       \* consumer's position inside try_pop
    c_pos,      \* try_pop local pos
    c_seq,      \* try_pop local seq
    c_res,      \* try_pop local result
    pushed,     \* history: values accepted by try_push, in order
    popped      \* history: values returned by try_pop, in order

\* ------------------------------------------------- run() state (SpecRun)

VARIABLES
    shutdown_requested_,  \* MarketDataEngine::shutdown_requested_
    net_pc,               \* network thread's position in network_thread_func
    eng_pc,               \* engine thread's position in engine_thread_func
    eng_msg,              \* engine_thread_func local msg (<<>>: none)
    feed_handler_,        \* MarketDataEngine::feed_handler_ ("live" / "null")
    conn_state,           \* WebSocketClient::state_ of the current client
    ws_,                  \* WebSocketClient::ws_ ("null" / "stream")
    run_returned,         \* run() has returned
    n_sink,               \* history: calls of the queue-push callback
    n_accepted,           \* history: events the queue accepted
    n_processed,          \* history: events process_message has handled
    net_last_push,        \* history: the network thread's last try_push
    eng_exit              \* history: how the engine thread left its loop

runVars == <<shutdown_requested_, net_pc, eng_pc, eng_msg, feed_handler_,
             conn_state, ws_, run_returned, n_sink, n_accepted, n_processed,
             net_last_push, eng_exit>>

\* ------------------------------------- WebSocketServer state (SpecBroadcast)

VARIABLES
    send_impl,        \* which WebSocketSession::send is built (see ServerStart)
    sessions_,        \* WebSocketServer::sessions_
    n_sessions,       \* sessions accepted so far (they are numbered 1, 2, ..)
    write_queue_,     \* WebSocketSession::write_queue_, per session
    writing_,         \* WebSocketSession::writing_, per session
    current_message_, \* message of the async_write in progress (0: none)
    ioc_posted,       \* handlers posted to the server's io_context, in order
    bc_pc,            \* compute thread inside broadcast(): idle/blocked/aborted
    n_broadcast,      \* broadcast() calls so far (messages are numbered 1, 2, ..)
    joined,           \* history: n_broadcast when the session was added
    wire              \* history: messages written to the session's socket

bcVars == <<send_impl, sessions_, n_sessions, write_queue_, writing_,
            current_message_, ioc_posted, bc_pc, n_broadcast, joined, wire>>

\* ------------------------------------------- TradeFlow state (SpecTrade)

VARIABLES
    tf_pc,                \* "new" until TradeFlow's constructor has run
    window_size_,         \* VwapCalculator::window_size_
    threshold_,           \* AlertDetector::threshold_
    trades_,              \* VwapCalculator::trades_
    sum_pv_,              \* VwapCalculator::sum_pv_
    sum_v_,               \* VwapCalculator::sum_v_
    mean_,                \* VwapCalculator::mean_   (a rational)
    m2_,                  \* VwapCalculator::m2_     (a rational)
    count_,               \* VwapCalculator::count_
    total_buy_volume_,    \* TradeFlow::total_buy_volume_
    total_sell_volume_,   \* TradeFlow::total_sell_volume_
    last_alert_,          \* TradeFlow::last_alert_
    pending_alert_,       \* MarketDataEngine::pending_alert_
    all_trades,           \* history: every trade handed to handle_agg_trade
    tr_alert,             \* history: check_trade's result for the last trade
    tr_broadcast          \* history: the alert the last handle_agg_trade sent

tradeVars == <<tf_pc, window_size_, threshold_, trades_, sum_pv_, sum_v_,
               mean_, m2_, count_, total_buy_volume_, total_sell_volume_,
               last_alert_, pending_alert_, all_trades, tr_alert,
               tr_broadcast>>

\* ------------------------------- ReconnectStrategy state (SpecReconnect)
\* A millisecond count is kept as [m, e, c], the number m * 2^e + c, so that
\* its 64 bits are represented exactly.

VARIABLES
    rs_current_delay_,    \* ReconnectStrategy::current_delay_
    rs_attempt_count_,    \* ReconnectStrategy::attempt_count_
    rs_delay,             \* history: "delay" of the last next_delay() call
    rs_jittered,          \* history: what the last next_delay() returned
    rs_cast_ub            \* history: a cast's operand was out of range

reconnectVars == <<rs_current_delay_, rs_attempt_count_, rs_delay,
                   rs_jittered, rs_cast_ub>>

\* ----------------------------- compute core on its own (SpecCore) history
\* SpecCore drives sync_state_, last_processed_id_ and order_book_ with
\* arbitrary messages; these record what its steps did.

VARIABLES
    core_in,              \* history: what the engine loop's last try_pop gave
    core_rs,              \* history: the last handler called request_snapshot()
    await_snap,           \* history: a loss / restore / gap since the last Snapshot
    snap_seen,            \* history: a Snapshot has been processed
    book_cleared,         \* history: clear() ran since the last apply_snapshot
    snap_over,            \* history: a Snapshot replaced a book holding a
                          \*          level the Snapshot does not name
    applied_chain,        \* history: locally consistent updates applied in a
                          \*          row by the last steps (0, 1, 2 = two or more)
    last_metrics_output_, \* MarketDataEngine::last_metrics_output_, as "due"
    n_metrics             \* history: metrics messages broadcast

coreHist == <<core_rs, await_snap, snap_seen, book_cleared, snap_over,
              applied_chain>>

coreAuxVars == <<core_in, coreHist, last_metrics_output_, n_metrics>>

\* --------------------------------------- an OrderBook on its own (SpecBook)

VARIABLES
    book_,                \* an OrderBook whose member functions are called
    book_op,              \* history: the member function called last
    book_ret              \* history: the BookSnapshot the last call returned

bookVars == <<book_, book_op, book_ret>>

\* ------------------------------ an AlertDetector on its own (SpecAlert)

VARIABLES
    ad_pc,                \* "new" until AlertDetector's constructor has run
    ad_threshold_,        \* AlertDetector::threshold_ (a rational)
    ad_calls,             \* check_trade calls so far (the clock it reads)
    ad_in,                \* history: the arguments of the last check_trade
                          \*          and the threshold_ it read
    ad_ret                \* history: what the last check_trade returned

alertVars == <<ad_pc, ad_threshold_, ad_calls, ad_in, ad_ret>>

\* ------------------------------------ FixedPoint conversions (SpecFixed)
\* A std::string is a sequence of one-character strings.

VARIABLES
    fp_pc,                \* "idle", "parsed", "printed" or "compared"
    fp_str,               \* the string handed to parse
    fp_parsed,            \* what parse(fp_str) did: a value, a throw, a trap
    fp_text,              \* what to_string() of that value returned
    fp_str2,              \* a second string denoting the same decimal
    fp_parsed2            \* what parse(fp_str2) did

fixedVars == <<fp_pc, fp_str, fp_parsed, fp_text, fp_str2, fp_parsed2>>

\* --------------------------------------- size_approx() state (SpecSize)

VARIABLES
    sz_pc,      \* the caller's position inside size_approx
    sz_thread,  \* the thread the call runs on
    sz_tail,    \* size_approx local tail
    sz_calls,   \* size_approx calls started so far
    sz_ret      \* the value the last call returned (NoSize: none yet)

sizeVars == <<sz_pc, sz_thread, sz_tail, sz_calls, sz_ret>>

\* the pure components
pureVars == <<alertVars, fixedVars, sizeVars>>

\* the components that have a specification of their own
auxVars == <<tradeVars, reconnectVars, coreAuxVars, bookVars, pureVars>>

ringVars == <<head_, tail_, slot_seq, slot_val, p_pc, p_pos, p_seq, p_val,
              p_calls, c_pc, c_pos, c_seq, c_res, pushed, popped>>

\* everything the pipeline's steps leave alone
spscVars == <<ringVars, runVars, bcVars, auxVars>>

\* ------------------------------------------------- pipeline state

VARIABLES
    state_,               \* FeedHandler::state_
    buffered_updates_,    \* FeedHandler::buffered_updates_ (update numbers)
    snapshot_requested_,  \* FeedHandler::snapshot_requested_
    ws_client_,           \* FeedHandler::ws_client_ (0: null)
    current_delay_,       \* ReconnectStrategy::current_delay_ (ms)
    attempt_count_,       \* ReconnectStrategy::attempt_count_
    timer_armed,          \* reconnect_timer_ has a wait pending
    timer_queued,         \* expired waits whose handler has not run yet
    ws,                   \* every WebSocketClient created: its connection state
    stream_pos,           \* number of the last depth update the stream delivered
    n_conns,              \* WebSocketClient objects created so far
    n_trades,             \* agg-trade frames delivered so far
    rest,                 \* number of RestClient requests outstanding
    queue,                \* MarketDataEngine::queue_ contents, oldest first
    sync_state_,          \* MarketDataEngine::sync_state_
    last_processed_id_,   \* MarketDataEngine::last_processed_id_
    order_book_,          \* MarketDataEngine::order_book_
    core_pc,              \* compute thread: idle, or inside request_snapshot()
    gap_seen,             \* history: the compute core has detected a sequence gap
    stopped,              \* FeedHandler::stop() has been called
    op,                   \* history: the handler that ran in the last step
    out                   \* history: what that handler passed to emit_message

feedVars == <<state_, buffered_updates_, snapshot_requested_, ws_client_,
              current_delay_, attempt_count_, timer_armed, timer_queued>>
envVars  == <<ws, stream_pos, n_conns, n_trades, rest>>
coreVars == <<queue, sync_state_, last_processed_id_, order_book_, core_pc,
              gap_seen>>
histVars == <<stopped, op, out>>
\* everything the ring's steps leave alone
pipeVars == <<feedVars, envVars, coreVars, histVars, runVars, bcVars,
             auxVars>>

vars == <<spscVars, pipeVars>>

\* ------------------------------------------------------------ SPSC ring

NoValue == 0

Capacity == 2 ^ CapacityBits

kMask == Capacity - 1

\* pos & kMask for a power-of-two Capacity
SlotIndex(pos) == pos % Capacity

\* SpscQueue(): head_ = tail_ = 0, slots_[i].sequence = i
InitSpscQueue ==
    /\ head_ = 0
    /\ tail_ = 0
    /\ slot_seq = [i \in 0..kMask |-> i]
    /\ slot_val = [i \in 0..kMask |-> NoValue]

InitSpsc ==
    /\ InitSpscQueue
    /\ p_pc = "idle" /\ p_pos = 0 /\ p_seq = 0 /\ p_val = NoValue /\ p_calls = 0
    /\ c_pc = "idle" /\ c_pos = 0 /\ c_seq = 0 /\ c_res = NoValue
    /\ pushed = <<>>
    /\ popped = <<>>

\* ---- try_push -------------------------------------------------------

\* mutant: the full test accepts a slot whose sequence is behind pos
PushSlotFreeMut(seq, pos) == seq <= pos

\* try_push: `if (seq != pos) return false`
PushSlotFree(seq, pos) == seq = pos

\* const std::size_t pos = tail_.load(relaxed)
PushLoadTail ==
    /\ p_pc = "idle"
    /\ p_calls < MaxPush
    /\ p_calls' = p_calls + 1
    /\ p_val' = p_calls + 1
    /\ p_pos' = tail_
    /\ p_pc' = "load_seq"
    /\ UNCHANGED <<pipeVars, head_, tail_, slot_seq, slot_val, p_seq,
                   c_pc, c_pos, c_seq, c_res, pushed, popped>>

\* const std::size_t seq = slot.sequence.load(acquire)
PushLoadSeq ==
    /\ p_pc = "load_seq"
    /\ p_seq' = slot_seq[SlotIndex(p_pos)]
    /\ p_pc' = "check"
    /\ UNCHANGED <<pipeVars, head_, tail_, slot_seq, slot_val, p_pos, p_val, p_calls,
                   c_pc, c_pos, c_seq, c_res, pushed, popped>>

\* if (seq != pos) return false;  else  new (&slot.storage) T(std::move(value))
PushCheckAndConstruct ==
    /\ p_pc = "check"
    /\ IF PushSlotFree(p_seq, p_pos)
         THEN /\ slot_val' = [slot_val EXCEPT ![SlotIndex(p_pos)] = p_val]
              /\ p_pc' = "publish"
         ELSE /\ slot_val' = slot_val
              /\ p_pc' = "idle"
    /\ UNCHANGED <<pipeVars, head_, tail_, slot_seq, p_pos, p_seq, p_val, p_calls,
                   c_pc, c_pos, c_seq, c_res, pushed, popped>>

\* slot.sequence.store(pos + 1, release)
PushPublish ==
    /\ p_pc = "publish"
    /\ slot_seq' = [slot_seq EXCEPT ![SlotIndex(p_pos)] = p_pos + 1]
    /\ pushed' = Append(pushed, p_val)
    /\ p_pc' = "store_tail"
    /\ UNCHANGED <<pipeVars, head_, tail_, slot_val, p_pos, p_seq, p_val, p_calls,
                   c_pc, c_pos, c_seq, c_res, popped>>

\* tail_.store(pos + 1, relaxed); return true
PushStoreTail ==
    /\ p_pc = "store_tail"
    /\ tail_' = p_pos + 1
    /\ p_pc' = "idle"
    /\ UNCHANGED <<pipeVars, head_, slot_seq, slot_val, p_pos, p_seq, p_val, p_calls,
                   c_pc, c_pos, c_seq, c_res, pushed, popped>>

\* ---- try_pop --------------------------------------------------------

\* mutant: the consumer also accepts a slot whose sequence is not yet pos + 1
PopSlotReady_Mut(seq, pos) == seq >= pos

\* try_pop: `if (seq != pos + 1) return nullopt`
PopSlotReady(seq, pos) == seq = pos + 1

\* mutant: the slot is re-armed without the lap offset
PopRearmSeq_Mut(pos) == pos + 1

\* the sequence try_pop stores to re-arm the slot for the next lap
PopRearmSeq(pos) == pos + Capacity

\* const std::size_t pos = head_.load(relaxed)
PopLoadHead ==
    /\ c_pc = "idle"
    /\ Len(popped) < MaxPush
    /\ c_pos' = head_
    /\ c_pc' = "load_seq"
    /\ UNCHANGED <<pipeVars, head_, tail_, slot_seq, slot_val, p_pc, p_pos, p_seq, p_val,
                   p_calls, c_seq, c_res, pushed, popped>>

\* const std::size_t seq = slot.sequence.load(acquire)
PopLoadSeq ==
    /\ c_pc = "load_seq"
    /\ c_seq' = slot_seq[SlotIndex(c_pos)]
    /\ c_pc' = "check"
    /\ UNCHANGED <<pipeVars, head_, tail_, slot_seq, slot_val, p_pc, p_pos, p_seq, p_val,
                   p_calls, c_pos, c_res, pushed, popped>>

\* if (seq != pos + 1) return nullopt;  else move the element out, ptr->~T()
PopCheckAndMove ==
    /\ c_pc = "check"
    /\ IF PopSlotReady(c_seq, c_pos)
         THEN /\ c_res' = slot_val[SlotIndex(c_pos)]
              /\ slot_val' = [slot_val EXCEPT ![SlotIndex(c_pos)] = NoValue]
              /\ c_pc' = "rearm"
         ELSE /\ c_res' = NoValue
              /\ slot_val' = slot_val
              /\ c_pc' = "idle"
    /\ UNCHANGED <<pipeVars, head_, tail_, slot_seq, p_pc, p_pos, p_seq, p_val, p_calls,
                   c_pos, c_seq, pushed, popped>>

\* slot.sequence.store(pos + Capacity, release)
PopRearm ==
    /\ c_pc = "rearm"
    /\ slot_seq' = [slot_seq EXCEPT ![SlotIndex(c_pos)] = PopRearmSeq(c_pos)]
    /\ c_pc' = "store_head"
    /\ UNCHANGED <<pipeVars, head_, tail_, slot_val, p_pc, p_pos, p_seq, p_val, p_calls,
                   c_pos, c_seq, c_res, pushed, popped>>

\* head_.store(pos + 1, relaxed); return result
PopStoreHead ==
    /\ c_pc = "store_head"
    /\ head_' = c_pos + 1
    /\ popped' = Append(popped, c_res)
    /\ c_pc' = "idle"
    /\ UNCHANGED <<pipeVars, tail_, slot_seq, slot_val, p_pc, p_pos, p_seq, p_val, p_calls,
                   c_pos, c_seq, c_res, pushed>>

NextSpscQueue ==
    \/ PushLoadTail
    \/ PushLoadSeq
    \/ PushCheckAndConstruct
    \/ PushPublish
    \/ PushStoreTail
    \/ PopLoadHead
    \/ PopLoadSeq
    \/ PopCheckAndMove
    \/ PopRearm
    \/ PopStoreHead


\* ================================================================ pipeline

\* ------------------------------------------------------------------ bounds

\* depth updates the venue publishes on the stream
MaxUpd == 3
\* upstream WS clients the feed creates (connect() calls)
MaxConns == 2
\* agg-trade frames the venue sends
MaxTrades == 1
\* REST snapshot requests outstanding at once
MaxRest == 2
\* next_delay() calls without a reset()
MaxAttempts == 2
\* capacity of the event queue in Spec (the engine's ring holds 65536)
QueueCap == 3


\* ---- venue ---------------------------------------------------------------

\* final update id of the venue's k-th depth update (k = 0: the id before the
\* first one).  Updates 1..3 are the spec's bridging scenario.
FinalId(k) ==
    CASE k = 0 -> 994
      [] k = 1 -> 999
      [] k = 2 -> 1002
      [] k = 3 -> 1004
      [] OTHER -> 1004 + 2 * (k - 3)

\* one level of a side: binance::PriceLevel
Level(p, q) == [price |-> p, qty |-> q]

\* the venue's k-th DepthUpdate: U = previous u + 1, pu = previous u
Upd(k) ==
    [ first_update_id      |-> FinalId(k - 1) + 1,
      final_update_id      |-> FinalId(k),
      prev_final_update_id |-> FinalId(k - 1),
      bids |-> <<Level(1 + (k % 2), k % 3)>>,
      asks |-> <<Level(3 + (k % 2), (k + 1) % 3)>> ]

\* the venue's DepthSnapshot with lastUpdateId S
Snap(S) ==
    [ last_update_id |-> S,
      bids |-> <<Level(1, 1 + (S % 2)), Level(2, 0)>>,
      asks |-> <<Level(3, 1), Level(4, 1 + (S % 2))>> ]

\* ---- order book ------------------------------------------------------

Max(S) == CHOOSE x \in S : \A y \in S : y <= x
Min(S) == CHOOSE x \in S : \A y \in S : x <= y

\* an empty std::map
EmptyMap == [p \in {} |-> 0]

\* OrderBook(): empty sides, last_update_id_{0}, caches invalid
EmptyBook ==
    [ bids |-> EmptyMap, asks |-> EmptyMap, last_update_id |-> 0,
      best_bid_valid |-> FALSE, best_ask_valid |-> FALSE,
      best_bid_it |-> 0, best_ask_it |-> 0 ]

\* std::map erase(key)
MapErase(m, key) == [p \in DOMAIN m \ {key} |-> m[p]]
\* std::map operator[](key) = v
MapAssign(m, key, v) == [p \in DOMAIN m \cup {key} |-> IF p = key THEN v ELSE m[p]]

\* mutant: the cache is invalidated only when the cached best bid is erased
apply_bid_update_Mut(b, price, qty) ==
    [b EXCEPT !.bids = IF qty > 0 THEN MapAssign(b.bids, price, qty)
                       ELSE MapErase(b.bids, price),
              !.best_bid_valid =
                  IF qty <= 0 /\ price \in DOMAIN b.bids /\ b.best_bid_valid
                     /\ price = b.best_bid_it
                  THEN FALSE ELSE @]

\* OrderBook::apply_bid_update
apply_bid_update(b, price, qty) ==
    [b EXCEPT !.bids = IF qty > 0 THEN MapAssign(b.bids, price, qty)
                       ELSE MapErase(b.bids, price),
              !.best_bid_valid = FALSE]

\* mutant: a level of quantity zero is stored instead of erased
apply_ask_update_Mut(b, price, qty) ==
    [b EXCEPT !.asks = IF qty >= 0 THEN MapAssign(b.asks, price, qty)
                       ELSE MapErase(b.asks, price),
              !.best_ask_valid = FALSE]

\* OrderBook::apply_ask_update
apply_ask_update(b, price, qty) ==
    [b EXCEPT !.asks = IF qty > 0 THEN MapAssign(b.asks, price, qty)
                       ELSE MapErase(b.asks, price),
              !.best_ask_valid = FALSE]

\* OrderBook::update_best_bid_cache: bids_ is ordered descending, begin() is the max
update_best_bid_cache(b) ==
    IF b.best_bid_valid THEN b
    ELSE [b EXCEPT !.best_bid_it = Max(DOMAIN b.bids), !.best_bid_valid = TRUE]

\* OrderBook::update_best_ask_cache: asks_ is ordered ascending, begin() is the min
update_best_ask_cache(b) ==
    IF b.best_ask_valid THEN b
    ELSE [b EXCEPT !.best_ask_it = Min(DOMAIN b.asks), !.best_ask_valid = TRUE]

\* OrderBook::build_snapshot: its effect on the (mutable) best-level caches
build_snapshot(b) ==
    LET b1 == IF DOMAIN b.bids # {} THEN update_best_bid_cache(b) ELSE b
    IN  IF DOMAIN b1.asks # {} THEN update_best_ask_cache(b1) ELSE b1

RECURSIVE ApplyBidLevels(_, _)
ApplyBidLevels(b, levels) ==
    IF levels = <<>> THEN b
    ELSE ApplyBidLevels(apply_bid_update(b, Head(levels).price, Head(levels).qty),
                        Tail(levels))

RECURSIVE ApplyAskLevels(_, _)
ApplyAskLevels(b, levels) ==
    IF levels = <<>> THEN b
    ELSE ApplyAskLevels(apply_ask_update(b, Head(levels).price, Head(levels).qty),
                        Tail(levels))

\* mutant: the book is stamped with the id before the update's range
UpdateStamp_Mut(update) == update.first_update_id - 1
\* apply_update: "last_update_id_ = update.final_update_id"
UpdateStamp(update) == update.final_update_id

\* OrderBook::apply_update
apply_update(b, update) ==
    build_snapshot(
        [ApplyAskLevels(ApplyBidLevels(b, update.bids), update.asks)
            EXCEPT !.last_update_id = UpdateStamp(update)])

\* mutant: the levels are added to the map as it was
SnapshotBase_Mut(m) == m
\* apply_snapshot: bids_.clear() / asks_.clear()
SnapshotBase(m) == EmptyMap

RECURSIVE InsertPositive(_, _)
InsertPositive(m, levels) ==
    IF levels = <<>> THEN m
    ELSE InsertPositive(IF Head(levels).qty > 0
                          THEN MapAssign(m, Head(levels).price, Head(levels).qty)
                          ELSE m,
                        Tail(levels))

\* OrderBook::apply_snapshot
book_apply_snapshot(b, snapshot) ==
    build_snapshot(
        [b EXCEPT !.bids = InsertPositive(SnapshotBase(b.bids), snapshot.bids),
                  !.asks = InsertPositive(SnapshotBase(b.asks), snapshot.asks),
                  !.best_bid_valid = FALSE,
                  !.best_ask_valid = FALSE,
                  !.last_update_id = snapshot.last_update_id])

\* OrderBook::has_sequence_gap
has_sequence_gap(b, first_update_id, prev_final_update_id) ==
    prev_final_update_id # b.last_update_id

\* OrderBook::clear
book_clear(b) ==
    [b EXCEPT !.bids = EmptyMap, !.asks = EmptyMap, !.last_update_id = 0,
              !.best_bid_valid = FALSE, !.best_ask_valid = FALSE]


\* ---- engine messages (core/messages.hpp) -----------------------------

\* tag of a DepthUpdateMsg forwarded live (not replayed from the buffer)
NoReplay == 0 - 1

\* DepthUpdateMsg of update k; tag (history): the lastUpdateId of the snapshot
\* whose buffer walk emitted it, NoReplay when it was forwarded live
DepthUpdateMsg(k, tag) == [type |-> "DepthUpdate", id |-> k, tag |-> tag]
AggTradeMsg               == [type |-> "AggTrade", id |-> 0, tag |-> 0]
\* SnapshotMsg with lastUpdateId S
SnapshotMsg(S)            == [type |-> "Snapshot", id |-> S, tag |-> 0]
ConnectionLost            == [type |-> "ConnectionLost", id |-> 0, tag |-> 0]
\* ConnectionRestored; c: the client whose handshake completed
ConnectionRestored(c)     == [type |-> "ConnectionRestored", id |-> 0, tag |-> c]

\* ---- reconnect strategy ------------------------------------------------

\* NetworkConfig::reconnect_delay_initial (ms)
base_delay_ == 1000
\* NetworkConfig::reconnect_delay_max (ms)
max_delay_ == 30000
\* NetworkConfig::reconnect_backoff_multiplier
multiplier_ == 2

\* ---- feed handler: the state a handler works on ------------------------

\* the feed handler together with what its handlers reach: the WS clients,
\* the REST requests and the messages handed to emit_message in this step
CurW ==
    [ state |-> state_, buf |-> buffered_updates_, req |-> snapshot_requested_,
      client |-> ws_client_, delay |-> current_delay_, attempts |-> attempt_count_,
      armed |-> timer_armed, rest |-> rest, ws |-> ws, n |-> n_conns,
      out |-> <<>> ]

\* FeedHandler::set_state
set_state(w, s) == [w EXCEPT !.state = s]

\* FeedHandler::emit_message
emit_message(w, m) == [w EXCEPT !.out = Append(@, m)]

\* ReconnectStrategy::next_delay: its effect on the strategy
next_delay(w) ==
    [w EXCEPT !.attempts = @ + 1, !.delay = @ * multiplier_]

\* the pre-jitter delay next_delay() uses: min(current_delay_, max_delay_)
capped_delay(w) == IF w.delay < max_delay_ THEN w.delay ELSE max_delay_

\* ReconnectStrategy::reset
reset(w) == [w EXCEPT !.delay = base_delay_, !.attempts = 0]

\* FeedHandler::fetch_snapshot
fetch_snapshot(w) == [w EXCEPT !.req = TRUE, !.rest = @ + 1]

\* mutant: the re-request keeps the buffered updates
request_snapshot_Mut(w) ==
    IF w.req THEN w ELSE fetch_snapshot(set_state(w, "WaitingSnapshot"))

\* FeedHandler::request_snapshot
request_snapshot(w) ==
    IF w.req THEN w
    ELSE fetch_snapshot([set_state(w, "WaitingSnapshot") EXCEPT !.buf = <<>>])

\* FeedHandler::schedule_reconnect
schedule_reconnect(w) ==
    [next_delay([set_state(w, "Reconnecting") EXCEPT !.client = 0])
        EXCEPT !.armed = TRUE]

\* FeedHandler::connect
connect(w) ==
    [set_state(w, "Connecting") EXCEPT
        !.n = @ + 1,
        !.client = w.n + 1,
        !.ws = IF w.n < MaxConns
                 THEN [w.ws EXCEPT ![w.n + 1] = "connecting"] ELSE w.ws]

\* mutant: the handshake handler leaves the backoff where it is
on_ws_connected_reset_Mut(w) == w

\* FeedHandler::on_ws_connected, first statement
on_ws_connected_reset(w) == reset(w)

\* FeedHandler::on_ws_connected; c: the client whose handshake completed
on_ws_connected(w, c) ==
    fetch_snapshot(
        [emit_message(set_state(on_ws_connected_reset(w), "WaitingSnapshot"),
                      ConnectionRestored(c))
            EXCEPT !.buf = <<>>])

\* mutant: depth updates are forwarded when Live and dropped otherwise
process_depth_update_Mut(w, k) ==
    IF w.state = "Live" THEN emit_message(w, DepthUpdateMsg(k, NoReplay)) ELSE w

\* FeedHandler::process_depth_update
process_depth_update(w, k) ==
    IF w.state = "WaitingSnapshot" THEN [w EXCEPT !.buf = Append(@, k)]
    ELSE IF w.state = "Live" THEN emit_message(w, DepthUpdateMsg(k, NoReplay))
    ELSE w

\* FeedHandler::process_agg_trade
process_agg_trade(w) == emit_message(w, AggTradeMsg)

\* FeedHandler::on_ws_error
on_ws_error(w) == schedule_reconnect(emit_message(w, ConnectionLost))

\* FeedHandler::on_ws_disconnect
on_ws_disconnect(w) ==
    IF w.state = "Disconnected" THEN w
    ELSE schedule_reconnect(emit_message(w, ConnectionLost))

\* WebSocketClient::fail: on_error_ then on_disconnect_
ws_fail(w) == on_ws_disconnect(on_ws_error(w))

\* mutant: the bridging test compares with lastUpdateId instead of
\* lastUpdateId + 1
IsBridging_Mut(k, S) ==
    /\ Upd(k).first_update_id <= S
    /\ Upd(k).final_update_id >= S

\* the bridging test of FeedHandler::apply_snapshot
IsBridging(k, S) ==
    /\ Upd(k).first_update_id <= S + 1
    /\ Upd(k).final_update_id >= S + 1

\* the loop of FeedHandler::apply_snapshot over the updates still to visit.
\* found: found_first_valid.  Result: the state, and whether the loop returned
\* from the function (the sync-gap branch).
RECURSIVE WalkBuffer(_, _, _, _)
WalkBuffer(w, todo, found, S) ==
    IF todo = <<>> THEN [w |-> w, found |-> found, returned |-> FALSE]
    ELSE LET k == Head(todo) IN
         IF found THEN
            WalkBuffer(emit_message(w, DepthUpdateMsg(k, S)), Tail(todo), TRUE, S)
         ELSE IF IsBridging(k, S) THEN
            WalkBuffer(emit_message(w, DepthUpdateMsg(k, S)), Tail(todo), TRUE, S)
         ELSE IF Upd(k).final_update_id <= S THEN
            WalkBuffer(w, Tail(todo), FALSE, S)
         ELSE [w |-> request_snapshot(w), found |-> FALSE, returned |-> TRUE]

\* FeedHandler::apply_snapshot
apply_snapshot(w, S) ==
    LET w1 == emit_message(set_state(w, "Syncing"), SnapshotMsg(S))
        r  == WalkBuffer(w1, w1.buf, FALSE, S)
        w2 == [r.w EXCEPT !.buf = <<>>]
    IN  IF r.returned THEN r.w
        ELSE IF ~r.found /\ w2.buf # <<>> THEN request_snapshot(w2)
        ELSE set_state(w2, "Live")

\* FeedHandler::on_snapshot_response with a parsed snapshot
on_snapshot_response_ok(w, S) == apply_snapshot([w EXCEPT !.req = FALSE], S)

\* mutant: a failed fetch is logged and nothing else happens
on_snapshot_response_err_Mut(w) == [w EXCEPT !.req = FALSE]

\* FeedHandler::on_snapshot_response with an error (or an unparsable body)
on_snapshot_response_err(w) == schedule_reconnect([w EXCEPT !.req = FALSE])

\* FeedHandler::on_reconnect_timer
on_reconnect_timer(w) == IF w.state = "Disconnected" THEN w ELSE connect(w)

\* WebSocketClient::close
ws_close(st) == IF st = "done" THEN st ELSE "closing"

\* FeedHandler::stop
stop(w) ==
    LET w1 == [set_state(w, "Disconnected") EXCEPT !.armed = FALSE]
    IN  IF w1.client # 0
          THEN [w1 EXCEPT !.ws[w1.client] = ws_close(@), !.client = 0]
          ELSE w1


\* ---- event sink: the lambda given to the feed handler -----------------

\* network_thread_func's callback: try_push, and drop the message when full
RECURSIVE Enqueue(_, _)
Enqueue(q, msgs) ==
    IF msgs = <<>> THEN q
    ELSE Enqueue(IF Len(q) < QueueCap THEN Append(q, Head(msgs)) ELSE q, Tail(msgs))

\* ---- compute core ------------------------------------------------------

\* the compute core's own state, as its handlers see it
CurCore ==
    [ sync |-> sync_state_, last |-> last_processed_id_, book |-> order_book_,
      call |-> FALSE ]

\* MarketDataEngine::handle_depth_update: the gap test
GapDetected(e, update) ==
    /\ e.last > 0
    /\ has_sequence_gap(e.book, update.first_update_id, update.prev_final_update_id)

\* handle_depth_update: "last_processed_id_ = update.final_update_id"
ProcessedId_Mut(update) == update.first_update_id
ProcessedId(update) == update.final_update_id

\* MarketDataEngine::handle_depth_update; call: request_snapshot() is invoked
handle_depth_update(e, update) ==
    IF e.sync # "Synced" THEN e
    ELSE IF GapDetected(e, update)
      THEN [e EXCEPT !.sync = "WaitingSnapshot", !.book = book_clear(@), !.call = TRUE]
      ELSE [e EXCEPT !.book = apply_update(@, update),
                     !.last = ProcessedId(update)]

\* MarketDataEngine::handle_snapshot
handle_snapshot(e, snapshot) ==
    [e EXCEPT !.book = book_apply_snapshot(@, snapshot),
              !.last = snapshot.last_update_id,
              !.sync = "Synced"]

\* MarketDataEngine::handle_connection_lost
handle_connection_lost(e) == [e EXCEPT !.sync = "WaitingSnapshot"]

\* mutant: the restored connection leaves the sync state as it is
handle_connection_restored_Mut(e) == e

\* MarketDataEngine::handle_connection_restored
handle_connection_restored(e) == [e EXCEPT !.sync = "WaitingSnapshot"]

\* MarketDataEngine::handle_agg_trade: no effect on the book or the sync state
handle_agg_trade(e) == e

\* MarketDataEngine::process_message
process_message(e, m) ==
    CASE m.type = "DepthUpdate"        -> handle_depth_update(e, Upd(m.id))
      [] m.type = "AggTrade"           -> handle_agg_trade(e)
      [] m.type = "Snapshot"           -> handle_snapshot(e, Snap(m.id))
      [] m.type = "ConnectionLost"     -> handle_connection_lost(e)
      [] m.type = "ConnectionRestored" -> handle_connection_restored(e)

\* ---- initial state -------------------------------------------------------

InitPipeline ==
    /\ state_ = "Disconnected"
    /\ buffered_updates_ = <<>>
    /\ snapshot_requested_ = FALSE
    /\ ws_client_ = 0
    /\ current_delay_ = base_delay_
    /\ attempt_count_ = 0
    /\ timer_armed = FALSE
    /\ timer_queued = 0
    /\ ws = [c \in 1..MaxConns |-> "none"]
    /\ stream_pos = 0
    /\ n_conns = 0
    /\ n_trades = 0
    /\ rest = 0
    /\ queue = <<>>
    /\ sync_state_ = "Initializing"
    /\ last_processed_id_ = 0
    /\ order_book_ = EmptyBook
    /\ gap_seen = FALSE
    /\ core_pc = "idle"
    /\ stopped = FALSE
    /\ op = [h |-> "init", a |-> 0, b |-> 0]
    /\ out = <<>>

\* sessions the server accepts
MaxSessions == 2
\* broadcast() calls
MaxBroadcast == 4
\* the per-subscriber buffer bound checked for (the code defines none)
SendBufferBound == 2

Sessions == 1..MaxSessions

\* WebSocketServer::WebSocketServer, before start()
InitServer ==
    /\ send_impl = "none"
    /\ sessions_ = {}
    /\ n_sessions = 0
    /\ write_queue_ = [s \in Sessions |-> <<>>]
    /\ writing_ = [s \in Sessions |-> FALSE]
    /\ current_message_ = [s \in Sessions |-> 0]
    /\ ioc_posted = <<>>
    /\ bc_pc = "idle"
    /\ n_broadcast = 0
    /\ joined = [s \in Sessions |-> 0]
    /\ wire = [s \in Sessions |-> <<>>]

\* run(): the engine thread has been started and is at the top of its loop,
\* the calling thread is entering network_thread_func
InitRun ==
    /\ shutdown_requested_ = FALSE
    /\ net_pc = "start"
    /\ eng_pc = "loop_test"
    /\ eng_msg = <<>>
    /\ feed_handler_ = "null"
    /\ conn_state = "Disconnected"
    /\ ws_ = "null"
    /\ run_returned = FALSE
    /\ n_sink = 0
    /\ n_accepted = 0
    /\ n_processed = 0
    /\ net_last_push = <<>>
    /\ eng_exit = "none"

\* ---- rationals: the values of mean_ and m2_ ---------------------------------
\* The calculator's doubles are taken as exact numbers: a rational is kept in
\* lowest terms with a positive denominator.

RECURSIVE Gcd(_, _)
Gcd(a, b) == IF b = 0 THEN a ELSE Gcd(b, a % b)

Abs(x) == IF x < 0 THEN -x ELSE x

Rat(n, d) ==
    LET g == Gcd(Abs(n), Abs(d))
        sg == IF d < 0 THEN -1 ELSE 1
    IN  [n |-> sg * (n \div g), d |-> sg * (d \div g)]

RInt(i)    == [n |-> i, d |-> 1]
RAdd(x, y) == Rat(x.n * y.d + y.n * x.d, x.d * y.d)
RSub(x, y) == Rat(x.n * y.d - y.n * x.d, x.d * y.d)
RMul(x, y) == Rat(x.n * y.n, x.d * y.d)
RDiv(x, y) == Rat(x.n * y.d, x.d * y.n)
RLess(x, y) == x.n * y.d < y.n * x.d

\* std::optional<TradeAlert> without a value
NoAlert == [has_value |-> FALSE]

\* TradeFlow, its calculator and detector before the engine constructs them
InitTrade ==
    /\ tf_pc = "new"
    /\ window_size_ = 0
    /\ threshold_ = 0
    /\ trades_ = <<>>
    /\ sum_pv_ = 0
    /\ sum_v_ = 0
    /\ mean_ = RInt(0)
    /\ m2_ = RInt(0)
    /\ count_ = 0
    /\ total_buy_volume_ = 0
    /\ total_sell_volume_ = 0
    /\ last_alert_ = NoAlert
    /\ pending_alert_ = NoAlert
    /\ all_trades = <<>>
    /\ tr_alert = NoAlert
    /\ tr_broadcast = NoAlert

\* a count that fits the model's integers
Ms(i) == [m |-> i, e |-> 0, c |-> 0]

\* ReconnectStrategy::ReconnectStrategy with the default arguments
InitReconnect ==
    /\ rs_current_delay_ = Ms(1000)
    /\ rs_attempt_count_ = 0
    /\ rs_delay = Ms(0)
    /\ rs_jittered = Ms(0)
    /\ rs_cast_ub = FALSE

\* the engine's members outside the pipeline model, after construction
InitCoreAux ==
    /\ core_in = "none"
    /\ core_rs = FALSE
    /\ await_snap = FALSE
    /\ snap_seen = FALSE
    /\ book_cleared = FALSE
    /\ snap_over = FALSE
    /\ applied_chain = 0
    /\ last_metrics_output_ = "due"
    /\ n_metrics = 0

\* BookSnapshot{}: every member zero
NoSnapshot ==
    [best_bid |-> 0, best_bid_qty |-> 0, best_ask |-> 0, best_ask_qty |-> 0,
     last_update_id |-> 0]

\* OrderBook::OrderBook
InitBook ==
    /\ book_ = EmptyBook
    /\ book_op = "OrderBook"
    /\ book_ret = NoSnapshot

\* no AlertDetector yet, no check_trade call yet
NoCall == [called |-> FALSE]

InitAlert ==
    /\ ad_pc = "new"
    /\ ad_threshold_ = RInt(2)
    /\ ad_calls = 0
    /\ ad_in = NoCall
    /\ ad_ret = NoAlert

\* nothing done yet
NoOutcome == [kind |-> "none"]

InitFixed ==
    /\ fp_pc = "idle"
    /\ fp_str = <<>>
    /\ fp_parsed = NoOutcome
    /\ fp_text = NoOutcome
    /\ fp_str2 = <<>>
    /\ fp_parsed2 = NoOutcome

\* sz_ret before any call has returned
NoSize == 0 - 1

InitSize ==
    /\ sz_pc = "idle"
    /\ sz_thread = "other"
    /\ sz_tail = 0
    /\ sz_calls = 0
    /\ sz_ret = NoSize

InitPure == InitAlert /\ InitFixed /\ InitSize

InitAux ==
    InitTrade /\ InitReconnect /\ InitCoreAux /\ InitBook /\ InitPure

Init == InitSpsc /\ InitPipeline /\ InitRun /\ InitServer /\ InitAux

\* ---- steps of the network context ----------------------------------------

\* a feed handler h (arguments a, b) ran and left the feed in w.  full: the sink
\* is the engine's queue (Spec); otherwise the emitted messages are only recorded
Commit(w, h, a, b, full) ==
    /\ w.rest <= MaxRest
    /\ w.attempts <= MaxAttempts
    /\ w.n <= MaxConns
    /\ state_' = w.state
    /\ buffered_updates_' = w.buf
    /\ snapshot_requested_' = w.req
    /\ ws_client_' = w.client
    /\ current_delay_' = w.delay
    /\ attempt_count_' = w.attempts
    /\ timer_armed' = w.armed
    /\ rest' = w.rest
    /\ ws' = w.ws
    /\ n_conns' = w.n
    /\ IF full
         THEN queue' = Enqueue(queue, w.out) /\ out' = out /\ op' = op
         ELSE queue' = queue /\ out' = w.out /\ op' = [h |-> h, a |-> a, b |-> b]

SetWs(w, c, st) == [w EXCEPT !.ws[c] = st]

\* FeedHandler::start
Start(full) ==
    /\ n_conns = 0 /\ ~stopped
    /\ Commit(connect(CurW), "start", 0, 0, full)
    /\ UNCHANGED <<timer_queued, stream_pos, n_trades, sync_state_, last_processed_id_,
                   order_book_, gap_seen, core_pc, stopped, spscVars>>

\* FeedHandler::stop
Stop(full) ==
    /\ n_conns > 0 /\ ~stopped
    /\ Commit(stop(CurW), "stop", 0, 0, full)
    /\ stopped' = TRUE
    /\ UNCHANGED <<timer_queued, stream_pos, n_trades, sync_state_, last_processed_id_,
                   order_book_, gap_seen, core_pc, spscVars>>

\* WebSocketClient::on_ws_handshake without error
WsHandshakeOk(c, full) ==
    /\ ws[c] = "connecting"
    /\ Commit(on_ws_connected(SetWs(CurW, c, "open"), c), "ws_connected", c, 0, full)
    /\ UNCHANGED <<timer_queued, stream_pos, n_trades, sync_state_, last_processed_id_,
                   order_book_, gap_seen, core_pc, stopped, spscVars>>

\* WebSocketClient::fail from on_resolve/on_connect/on_ssl_handshake/
\* on_ws_handshake/on_read
WsFail(c, full) ==
    /\ ws[c] \in {"connecting", "open", "closing"}
    /\ Commit(ws_fail(SetWs(CurW, c, "done")), "ws_fail", c, 0, full)
    /\ UNCHANGED <<timer_queued, stream_pos, n_trades, sync_state_, last_processed_id_,
                   order_book_, gap_seen, core_pc, stopped, spscVars>>

\* WebSocketClient::on_read with websocket::error::closed
WsClosed(c, full) ==
    /\ ws[c] \in {"open", "closing"}
    /\ Commit(on_ws_disconnect(SetWs(CurW, c, "done")), "ws_closed", c, 0, full)
    /\ UNCHANGED <<timer_queued, stream_pos, n_trades, sync_state_, last_processed_id_,
                   order_book_, gap_seen, core_pc, stopped, spscVars>>

\* WebSocketClient::on_close
WsCloseDone(c, full) ==
    /\ ws[c] = "closing"
    /\ Commit(on_ws_disconnect(SetWs(CurW, c, "done")), "ws_close_done", c, 0, full)
    /\ UNCHANGED <<timer_queued, stream_pos, n_trades, sync_state_, last_processed_id_,
                   order_book_, gap_seen, core_pc, stopped, spscVars>>

\* WebSocketClient::on_read with a depth frame: on_ws_message -> process_depth_update
WsDepthFrame(c, full) ==
    /\ ws[c] = "open"
    /\ stream_pos < MaxUpd
    /\ Commit(process_depth_update(CurW, stream_pos + 1), "depth", c, stream_pos + 1, full)
    /\ stream_pos' = stream_pos + 1
    /\ UNCHANGED <<timer_queued, n_trades, sync_state_, last_processed_id_,
                   order_book_, gap_seen, core_pc, stopped, spscVars>>

\* WebSocketClient::on_read with an aggTrade frame: on_ws_message -> process_agg_trade
WsTradeFrame(c, full) ==
    /\ ws[c] = "open"
    /\ n_trades < MaxTrades
    /\ Commit(process_agg_trade(CurW), "trade", c, 0, full)
    /\ n_trades' = n_trades + 1
    /\ UNCHANGED <<timer_queued, stream_pos, sync_state_, last_processed_id_,
                   order_book_, gap_seen, core_pc, stopped, spscVars>>

\* reconnect_timer_ expires: its handler is queued with no error
TimerExpire(full) ==
    /\ timer_armed
    /\ timer_queued = 0
    /\ timer_armed' = FALSE
    /\ timer_queued' = 1
    /\ IF full THEN op' = op /\ out' = out
       ELSE op' = [h |-> "timer_expire", a |-> 0, b |-> 0] /\ out' = <<>>
    /\ UNCHANGED <<state_, buffered_updates_, snapshot_requested_, ws_client_,
                   current_delay_, attempt_count_, envVars, coreVars, stopped,
                   spscVars>>

\* the queued wait handler runs: on_reconnect_timer
TimerHandler(full) ==
    /\ timer_queued > 0
    /\ Commit(on_reconnect_timer(CurW), "timer", 0, 0, full)
    /\ timer_queued' = timer_queued - 1
    /\ UNCHANGED <<stream_pos, n_trades, sync_state_, last_processed_id_,
                   order_book_, gap_seen, core_pc, stopped, spscVars>>

\* lastUpdateId values a REST response may carry: 0 (a venue that has applied
\* no update yet), one id before the stream the feed has seen since it began
\* buffering, each update's final id and the id before it, and one id past
\* the stream
SnapshotIds ==
    LET lo == IF buffered_updates_ # <<>> THEN Head(buffered_updates_)
              ELSE stream_pos + 1
    IN  {0, FinalId(lo - 1) - 1, FinalId(lo - 1), FinalId(stream_pos) + 1}
        \cup {FinalId(j) - 1 : j \in lo..stream_pos}
        \cup {FinalId(j) : j \in lo..stream_pos}

\* a RestClient completes its request with a snapshot whose lastUpdateId is S
RestOk(S, full) ==
    /\ rest > 0
    /\ Commit(on_snapshot_response_ok([CurW EXCEPT !.rest = @ - 1], S),
              "snapshot", S, 0, full)
    /\ UNCHANGED <<timer_queued, stream_pos, n_trades, sync_state_, last_processed_id_,
                   order_book_, gap_seen, core_pc, stopped, spscVars>>

\* a RestClient completes its request with an error
RestErr(full) ==
    /\ rest > 0
    /\ Commit(on_snapshot_response_err([CurW EXCEPT !.rest = @ - 1]),
              "snapshot_err", 0, 0, full)
    /\ UNCHANGED <<timer_queued, stream_pos, n_trades, sync_state_, last_processed_id_,
                   order_book_, gap_seen, core_pc, stopped, spscVars>>

\* ---- steps of the compute context ----------------------------------------

\* engine_thread_func: try_pop and process_message
CoreProcess ==
    /\ core_pc = "idle"
    /\ queue # <<>>
    /\ LET e == process_message(CurCore, Head(queue)) IN
        /\ sync_state_' = e.sync
        /\ last_processed_id_' = e.last
        /\ order_book_' = e.book
        /\ core_pc' = IF e.call THEN "rs_call" ELSE "idle"
        /\ gap_seen' = (gap_seen \/ e.call)
    /\ queue' = Tail(queue)
    /\ UNCHANGED <<feedVars, envVars, histVars, spscVars>>

\* a caller on the compute thread invokes FeedHandler::request_snapshot()
CallRequestSnapshot ==
    /\ core_pc = "idle"
    /\ n_conns > 0
    /\ core_pc' = "rs_call"
    /\ op' = [h |-> "rs_call", a |-> 0, b |-> 0]
    /\ out' = <<>>
    /\ UNCHANGED <<feedVars, envVars, queue, sync_state_, last_processed_id_,
                   order_book_, gap_seen, stopped, spscVars>>

\* FeedHandler::request_snapshot on the compute thread: `if (snapshot_requested_)`
CoreRsCheck(full) ==
    /\ core_pc = "rs_call"
    /\ core_pc' = IF snapshot_requested_ THEN "idle" ELSE "rs_body"
    /\ IF full THEN op' = op /\ out' = out
       ELSE op' = [h |-> "rs_check", a |-> 0, b |-> 0] /\ out' = <<>>
    /\ UNCHANGED <<feedVars, envVars, queue, sync_state_, last_processed_id_,
                   order_book_, gap_seen, stopped, spscVars>>

\* ... set_state(WaitingSnapshot); buffered_updates_.clear(); fetch_snapshot()
CoreRsBody(full) ==
    /\ core_pc = "rs_body"
    /\ Commit(request_snapshot([CurW EXCEPT !.req = FALSE]), "rs_body", 0, 0, full)
    /\ core_pc' = "idle"
    /\ UNCHANGED <<timer_queued, stream_pos, n_trades, sync_state_, last_processed_id_,
                   order_book_, gap_seen, stopped, spscVars>>

\* the feed handler with its upstream clients, its REST requests and its public
\* interface (start, stop, request_snapshot); the sink records what is emitted
NextFeed ==
    \/ Start(FALSE)
    \/ Stop(FALSE)
    \/ \E c \in 1..MaxConns : WsHandshakeOk(c, FALSE)
    \/ \E c \in 1..MaxConns : WsFail(c, FALSE)
    \/ \E c \in 1..MaxConns : WsClosed(c, FALSE)
    \/ \E c \in 1..MaxConns : WsCloseDone(c, FALSE)
    \/ \E c \in 1..MaxConns : WsDepthFrame(c, FALSE)
    \/ \E c \in 1..MaxConns : WsTradeFrame(c, FALSE)
    \/ TimerExpire(FALSE)
    \/ TimerHandler(FALSE)
    \/ \E S \in SnapshotIds : RestOk(S, FALSE)
    \/ RestErr(FALSE)
    \/ CallRequestSnapshot
    \/ CoreRsCheck(FALSE)
    \/ CoreRsBody(FALSE)

SpecFeed == Init /\ [][NextFeed]_vars

\* the engine: the feed handler's sink is the queue, the compute core drains
\* it.  The stream carries depth updates only: the core's agg-trade handler
\* reaches neither the book nor the sync state, and the feed's handling of
\* trades is covered by SpecFeed
NextPipeline ==
    \/ Start(TRUE)
    \/ \E c \in 1..MaxConns : WsHandshakeOk(c, TRUE)
    \/ \E c \in 1..MaxConns : WsFail(c, TRUE)
    \/ \E c \in 1..MaxConns : WsClosed(c, TRUE)
    \/ \E c \in 1..MaxConns : WsDepthFrame(c, TRUE)
    \/ TimerExpire(TRUE)
    \/ TimerHandler(TRUE)
    \/ \E S \in SnapshotIds : RestOk(S, TRUE)
    \/ RestErr(TRUE)
    \/ CoreProcess
    \/ CoreRsCheck(TRUE)
    \/ CoreRsBody(TRUE)

Next == NextPipeline

Spec == Init /\ [][Next]_vars

NextSpsc == NextSpscQueue

SpecSpsc == Init /\ [][NextSpsc]_vars

\* ==== run(): threads and shutdown =========================================

\* calls of the queue-push callback in SpecRun
MaxRunEvents == 3

Shutdown == [type |-> "Shutdown", id |-> 0, tag |-> 0]

\* whether the last try_push of a sink call with msgs on queue q succeeds
LastPushAccepted(q, msgs) ==
    Len(Enqueue(q, SubSeq(msgs, 1, Len(msgs) - 1))) < QueueCap

\* the steps below leave the ring, the feed model and the core's book alone
runFrame == <<ringVars, state_, buffered_updates_, snapshot_requested_,
              current_delay_, attempt_count_, timer_armed, timer_queued,
              envVars, sync_state_, last_processed_id_, order_book_, core_pc,
              gap_seen, histVars, bcVars, auxVars>>

\* a handler running inside network_ioc_.run_for passes msgs to the callback
\* of network_thread_func: try_push each, drop when full
RunSink(msgs) ==
    /\ net_pc = "run_for"
    /\ n_sink + Len(msgs) <= MaxRunEvents
    /\ queue' = Enqueue(queue, msgs)
    /\ n_sink' = n_sink + Len(msgs)
    /\ n_accepted' = n_accepted + (Len(queue') - Len(queue))
    /\ net_last_push' = <<msgs[Len(msgs)].type, LastPushAccepted(queue, msgs)>>

\* ---- network thread: network_thread_func --------------------------------

\* make_shared<FeedHandler>, feed_handler_->start(): connect() creates the
\* client, WebSocketClient::connect sets Resolving and starts the resolve
NetStart ==
    /\ net_pc = "start"
    /\ net_pc' = "loop_test"
    /\ feed_handler_' = "live"
    /\ ws_client_' = 1
    /\ conn_state' = "Resolving"
    /\ UNCHANGED <<runFrame, queue, shutdown_requested_, eng_pc, eng_msg, ws_,
                   run_returned, n_sink, n_accepted, n_processed, net_last_push,
                   eng_exit>>

\* `while (!shutdown_requested_.load())`
NetLoopTest ==
    /\ net_pc = "loop_test"
    /\ net_pc' = IF shutdown_requested_ THEN "stop" ELSE "run_for"
    /\ UNCHANGED <<runFrame, queue, ws_client_, shutdown_requested_, eng_pc, eng_msg,
                   feed_handler_, conn_state, ws_, run_returned, n_sink,
                   n_accepted, n_processed, net_last_push, eng_exit>>

\* run_for returns (100 ms elapsed, or the io_context was stopped); restart()
NetRunForReturns ==
    /\ net_pc = "run_for"
    /\ net_pc' = "loop_test"
    /\ UNCHANGED <<runFrame, queue, ws_client_, shutdown_requested_, eng_pc, eng_msg,
                   feed_handler_, conn_state, ws_, run_returned, n_sink,
                   n_accepted, n_processed, net_last_push, eng_exit>>

\* WebSocketClient::on_resolve: creates the stream ws_
NetOnResolve ==
    /\ net_pc = "run_for"
    /\ ws_client_ # 0
    /\ conn_state = "Resolving"
    /\ ws_' = "stream"
    /\ conn_state' = "Connecting"
    /\ UNCHANGED <<runFrame, queue, ws_client_, shutdown_requested_, net_pc, eng_pc,
                   eng_msg, feed_handler_, run_returned, n_sink, n_accepted,
                   n_processed, net_last_push, eng_exit>>

\* WebSocketClient::on_ws_handshake -> FeedHandler::on_ws_connected
NetOnWsHandshake ==
    /\ ws_client_ # 0
    /\ conn_state = "Connecting"
    /\ RunSink(<<ConnectionRestored(1)>>)
    /\ conn_state' = "Connected"
    /\ UNCHANGED <<runFrame, ws_client_, shutdown_requested_, net_pc, eng_pc,
                   eng_msg, feed_handler_, ws_, run_returned, n_processed,
                   eng_exit>>

\* WebSocketClient::on_read -> FeedHandler::on_ws_message: a depth update is
\* forwarded
NetOnRead ==
    /\ ws_client_ # 0
    /\ conn_state = "Connected"
    /\ RunSink(<<DepthUpdateMsg(1, NoReplay)>>)
    /\ UNCHANGED <<runFrame, ws_client_, shutdown_requested_, net_pc, eng_pc,
                   eng_msg, feed_handler_, conn_state, ws_, run_returned,
                   n_processed, eng_exit>>

\* WebSocketClient::fail at any stage: on_ws_error then on_ws_disconnect, each
\* emitting ConnectionLost and calling schedule_reconnect (ws_client_.reset())
NetOnFail ==
    /\ ws_client_ # 0
    /\ conn_state \in {"Resolving", "Connecting", "Connected"}
    /\ RunSink(<<ConnectionLost, ConnectionLost>>)
    /\ conn_state' = "Failed"
    /\ ws_client_' = 0
    /\ UNCHANGED <<runFrame, shutdown_requested_, net_pc, eng_pc, eng_msg,
                   feed_handler_, ws_, run_returned, n_processed, eng_exit>>

\* FeedHandler::on_reconnect_timer -> connect(): a new client, no stream yet
NetOnReconnectTimer ==
    /\ net_pc = "run_for"
    /\ ws_client_ = 0
    /\ conn_state = "Failed"
    /\ ws_client_' = 1
    /\ conn_state' = "Resolving"
    /\ ws_' = "null"
    /\ UNCHANGED <<runFrame, queue, shutdown_requested_, net_pc, eng_pc, eng_msg,
                   feed_handler_, run_returned, n_sink, n_accepted, n_processed,
                   net_last_push, eng_exit>>

\* feed_handler_->stop(): `if (ws_client_) { ws_client_->close(); ... }`.
\* close() calls do_close() unless the client is Disconnected, and do_close()
\* calls ws_->async_close: with ws_ still null the call is undefined (the
\* thread aborts, or goes on)
NetStop ==
    /\ net_pc = "stop"
    /\ \/ /\ ws_client_ # 0 /\ ws_ = "null"
          /\ net_pc' \in {"aborted", "reset"}
       \/ /\ ~(ws_client_ # 0 /\ ws_ = "null")
          /\ net_pc' = "reset"
    /\ ws_client_' = IF net_pc' = "reset" THEN 0 ELSE ws_client_
    /\ conn_state' = IF net_pc' = "reset" /\ ws_client_ # 0 THEN "Closing"
                     ELSE conn_state
    /\ UNCHANGED <<runFrame, queue, shutdown_requested_, eng_pc, eng_msg,
                   feed_handler_, ws_, run_returned, n_sink, n_accepted,
                   n_processed, net_last_push, eng_exit>>

\* feed_handler_.reset()
NetReset ==
    /\ net_pc = "reset"
    /\ net_pc' = "push_shutdown"
    /\ feed_handler_' = "null"
    /\ UNCHANGED <<runFrame, queue, ws_client_, shutdown_requested_, eng_pc, eng_msg,
                   conn_state, ws_, run_returned, n_sink, n_accepted,
                   n_processed, net_last_push, eng_exit>>

\* `queue_.try_push(Shutdown{})`, result ignored; the function returns
NetPushShutdown ==
    /\ net_pc = "push_shutdown"
    /\ net_pc' = "returned"
    /\ queue' = Enqueue(queue, <<Shutdown>>)
    /\ n_accepted' = n_accepted + (Len(queue') - Len(queue))
    /\ net_last_push' = <<"Shutdown", Len(queue) < QueueCap>>
    /\ UNCHANGED <<runFrame, ws_client_, shutdown_requested_, eng_pc, eng_msg,
                   feed_handler_, conn_state, ws_, run_returned, n_sink,
                   n_processed, eng_exit>>

\* ---- engine thread: engine_thread_func -----------------------------------

\* `while (!shutdown_requested_.load())`
EngLoopTest ==
    /\ eng_pc = "loop_test"
    /\ eng_pc' = IF shutdown_requested_ THEN "returned" ELSE "try_pop"
    /\ eng_exit' = IF shutdown_requested_ THEN "flag" ELSE eng_exit
    /\ UNCHANGED <<runFrame, queue, ws_client_, shutdown_requested_, net_pc, eng_msg,
                   feed_handler_, conn_state, ws_, run_returned, n_sink,
                   n_accepted, n_processed, net_last_push>>

\* `if (auto msg = queue_.try_pop())`; else output_metrics() and sleep
EngTryPop ==
    /\ eng_pc = "try_pop"
    /\ IF queue # <<>>
         THEN /\ eng_msg' = <<Head(queue)>>
              /\ queue' = Tail(queue)
              /\ eng_pc' = "process"
         ELSE /\ eng_pc' = "loop_test"
              /\ UNCHANGED <<queue, eng_msg>>
    /\ UNCHANGED <<runFrame, ws_client_, shutdown_requested_, net_pc, feed_handler_,
                   conn_state, ws_, run_returned, n_sink, n_accepted,
                   n_processed, net_last_push, eng_exit>>

\* process_message(*msg), then `if (holds_alternative<Shutdown>(*msg)) break`.
\* gap: handle_depth_update finds a sequence gap and calls
\* feed_handler_->request_snapshot(); through a pointer the network thread
\* has reset the call is undefined (the thread aborts, or goes on)
EngProcess(gap) ==
    /\ eng_pc = "process"
    /\ gap => eng_msg[1].type = "DepthUpdate"
    /\ eng_pc' \in
         IF gap /\ feed_handler_ = "null" THEN {"aborted", "loop_test"}
         ELSE IF eng_msg[1].type = "Shutdown" THEN {"returned"}
         ELSE {"loop_test"}
    /\ n_processed' = n_processed + 1
    /\ eng_msg' = <<>>
    /\ eng_exit' = IF eng_pc' = "returned" THEN "Shutdown" ELSE eng_exit
    /\ UNCHANGED <<runFrame, queue, ws_client_, shutdown_requested_, net_pc,
                   feed_handler_, conn_state, ws_, run_returned, n_sink,
                   n_accepted, net_last_push>>

\* ---- any thread ---------------------------------------------------------

\* request_shutdown(): shutdown_requested_.store(true); network_ioc_.stop()
RequestShutdown ==
    /\ ~shutdown_requested_
    /\ shutdown_requested_' = TRUE
    /\ UNCHANGED <<runFrame, queue, ws_client_, net_pc, eng_pc, eng_msg,
                   feed_handler_, conn_state, ws_, run_returned, n_sink,
                   n_accepted, n_processed, net_last_push, eng_exit>>

\* run(): network_thread_func has returned, engine_thread_.join() returns,
\* ws_server_->stop()
RunReturns ==
    /\ net_pc = "returned"
    /\ eng_pc = "returned"
    /\ ~run_returned
    /\ run_returned' = TRUE
    /\ UNCHANGED <<runFrame, queue, ws_client_, shutdown_requested_, net_pc, eng_pc,
                   eng_msg, feed_handler_, conn_state, ws_, n_sink, n_accepted,
                   n_processed, net_last_push, eng_exit>>

NextRun ==
    \/ NetStart
    \/ NetLoopTest
    \/ NetRunForReturns
    \/ NetOnResolve
    \/ NetOnWsHandshake
    \/ NetOnRead
    \/ NetOnFail
    \/ NetOnReconnectTimer
    \/ NetStop
    \/ NetReset
    \/ NetPushShutdown
    \/ EngLoopTest
    \/ EngTryPop
    \/ \E gap \in BOOLEAN : EngProcess(gap)
    \/ RequestShutdown
    \/ RunReturns

SpecRun == Init /\ [][NextRun]_vars

\* ==== output WebSocketServer ================================================

\* the steps below leave the ring, the pipeline and run() alone
bcFrame == <<ringVars, feedVars, envVars, coreVars, histVars, runVars,
            auxVars>>

\* one session's write state, as send / do_write see it
CurSession(s) ==
    [ q |-> write_queue_[s], writing |-> writing_[s], cur |-> current_message_[s] ]

\* mutant: do_write takes the newest queued message
do_write_Mut(x) ==
    IF x.q = <<>> THEN [x EXCEPT !.writing = FALSE]
    ELSE [x EXCEPT !.cur = x.q[Len(x.q)], !.q = SubSeq(x.q, 1, Len(x.q) - 1)]

\* WebSocketSession::do_write: empty queue -> writing_ = false; otherwise take
\* the front message and start async_write with it
do_write(x) ==
    IF x.q = <<>> THEN [x EXCEPT !.writing = FALSE]
    ELSE [x EXCEPT !.cur = Head(x.q), !.q = Tail(x.q)]

\* the handler that send() posts (websocket_server.cpp variant with
\* boost::asio::post): push_back, and do_write() outside the lock if no
\* write is in progress
send_posted(x, m) ==
    LET y == [x EXCEPT !.q = Append(@, m)] IN
    IF ~y.writing THEN do_write([y EXCEPT !.writing = TRUE]) ELSE y

\* the session's write state becomes x
SetSession(s, x) ==
    /\ write_queue_' = [write_queue_ EXCEPT ![s] = x.q]
    /\ writing_' = [writing_ EXCEPT ![s] = x.writing]
    /\ current_message_' = [current_message_ EXCEPT ![s] = x.cur]

\* all orders in which broadcast's loop can visit the set S
VisitOrders(S) ==
    {o \in [1..Cardinality(S) -> S] : \A i, j \in 1..Cardinality(S) : o[i] = o[j] => i = j}

\* the source tree holds two versions of WebSocketSession::send: "direct"
\* (src/output/websocket_server.cpp: send locks write_mutex_ and calls
\* do_write) and "posted" (send posts a handler to the io_context).  start()
\* fixes which one this run is about
ServerStart(impl) ==
    /\ send_impl = "none"
    /\ send_impl' = impl
    /\ UNCHANGED <<bcFrame, sessions_, n_sessions, write_queue_, writing_,
                   current_message_, ioc_posted, bc_pc, n_broadcast, joined, wire>>

\* ---- io thread -------------------------------------------------------------

\* WebSocketServer::on_accept: add_session (takes sessions_mutex_)
IoAccept ==
    /\ send_impl # "none"
    /\ bc_pc = "idle"
    /\ n_sessions < MaxSessions
    /\ n_sessions' = n_sessions + 1
    /\ sessions_' = sessions_ \cup {n_sessions + 1}
    /\ joined' = [joined EXCEPT ![n_sessions + 1] = n_broadcast]
    /\ UNCHANGED <<bcFrame, send_impl, write_queue_, writing_, current_message_,
                   ioc_posted, bc_pc, n_broadcast, wire>>

\* the io_context runs the oldest posted send handler
IoRunPosted ==
    /\ ioc_posted # <<>>
    /\ LET s == Head(ioc_posted)[1]
           m == Head(ioc_posted)[2]
       IN SetSession(s, send_posted(CurSession(s), m))
    /\ ioc_posted' = Tail(ioc_posted)
    /\ UNCHANGED <<bcFrame, send_impl, sessions_, n_sessions, bc_pc, n_broadcast,
                   joined, wire>>

\* WebSocketSession::on_write without error: the message is on the socket;
\* do_write() continues with the next one
IoWriteDone(s) ==
    /\ current_message_[s] # 0
    /\ wire' = [wire EXCEPT ![s] = Append(@, current_message_[s])]
    /\ SetSession(s, do_write([CurSession(s) EXCEPT !.cur = 0]))
    /\ UNCHANGED <<bcFrame, send_impl, sessions_, n_sessions, ioc_posted, bc_pc,
                   n_broadcast, joined>>

\* WebSocketSession::on_write with an error: remove_session, no further write
IoWriteFail(s) ==
    /\ current_message_[s] # 0
    /\ bc_pc = "idle"
    /\ sessions_' = sessions_ \ {s}
    /\ current_message_' = [current_message_ EXCEPT ![s] = 0]
    /\ UNCHANGED <<bcFrame, send_impl, n_sessions, write_queue_, writing_,
                   ioc_posted, bc_pc, n_broadcast, joined, wire>>

\* WebSocketSession::on_read with an error (the subscriber went away):
\* remove_session
IoReadFail(s) ==
    /\ s \in sessions_
    /\ bc_pc = "idle"
    /\ sessions_' = sessions_ \ {s}
    /\ UNCHANGED <<bcFrame, send_impl, n_sessions, write_queue_, writing_,
                   current_message_, ioc_posted, bc_pc, n_broadcast, joined, wire>>

\* ---- compute thread ----------------------------------------------------------

\* WebSocketServer::broadcast with the posting send: one handler is posted per
\* session, under sessions_mutex_; the call returns
BroadcastPosted ==
    /\ send_impl = "posted"
    /\ bc_pc = "idle"
    /\ n_broadcast < MaxBroadcast
    /\ n_broadcast' = n_broadcast + 1
    /\ \E o \in VisitOrders(sessions_) :
          ioc_posted' = ioc_posted \o [i \in 1..Cardinality(sessions_) |->
                                          <<o[i], n_broadcast + 1>>]
    /\ UNCHANGED <<bcFrame, send_impl, sessions_, n_sessions, write_queue_,
                   writing_, current_message_, bc_pc, joined, wire>>

\* the sessions of visiting order o that broadcast reaches with the direct
\* send: all up to and including the first one with no write in progress
DirectReached(o) ==
    {o[i] : i \in {i \in DOMAIN o : \A j \in 1..(i - 1) : writing_[o[j]]}}

\* WebSocketServer::broadcast with the direct send: send() locks write_mutex_,
\* appends, and if no write is in progress sets writing_ and calls do_write(),
\* which locks write_mutex_ again on the same thread - undefined for
\* std::mutex: the thread blocks for ever or is aborted.  Sessions with a write
\* in progress only get the message appended
BroadcastDirect ==
    /\ send_impl = "direct"
    /\ bc_pc = "idle"
    /\ n_broadcast < MaxBroadcast
    /\ n_broadcast' = n_broadcast + 1
    /\ \E o \in VisitOrders(sessions_) :
          /\ write_queue_' = [s \in Sessions |->
                 IF s \in DirectReached(o) THEN Append(write_queue_[s], n_broadcast + 1)
                 ELSE write_queue_[s]]
          /\ writing_' = [s \in Sessions |-> writing_[s] \/ s \in DirectReached(o)]
          /\ IF \E s \in sessions_ : ~writing_[s]
               THEN bc_pc' \in {"blocked", "aborted"}
               ELSE bc_pc' = "idle"
    /\ UNCHANGED <<bcFrame, send_impl, sessions_, n_sessions, current_message_,
                   ioc_posted, joined, wire>>

NextBroadcast ==
    \/ \E impl \in {"direct", "posted"} : ServerStart(impl)
    \/ IoAccept
    \/ IoRunPosted
    \/ \E s \in Sessions : IoWriteDone(s)
    \/ \E s \in Sessions : IoWriteFail(s)
    \/ \E s \in Sessions : IoReadFail(s)
    \/ BroadcastPosted
    \/ BroadcastDirect

SpecBroadcast == Init /\ [][NextBroadcast]_vars

\* ==== trade flow: VwapCalculator, AlertDetector, TradeFlow ==================

MaxAdd       == 4     \* trades handed to handle_agg_trade
MaxPrice     == 2     \* prices are 1 .. MaxPrice
MaxQty       == 2     \* quantities are 0 .. MaxQty
MaxWindow    == 3     \* Config::Engine::vwap_window is 1 .. MaxWindow
MaxThreshold == 1     \* Config::Engine::large_trade_std_devs is 1 .. MaxThreshold

\* binance::AggTrade, the fields the trade flow reads
AggTrades ==
    [price : 1..MaxPrice, quantity : 0..MaxQty, is_buyer_maker : BOOLEAN]

\* the steps below leave every other component alone
tradeFrame == <<ringVars, runVars, bcVars, feedVars, envVars, coreVars,
                histVars, reconnectVars, coreAuxVars, bookVars, pureVars>>

\* the calculator a member function works on
CurVwap ==
    [trades |-> trades_, sum_pv |-> sum_pv_, sum_v |-> sum_v_,
     mean |-> mean_, m2 |-> m2_, count |-> count_]

\* add_trade: "if (trades_.size() > window_size_)"
WindowExceeded_Mut(size, W) == size >= W
WindowExceeded(size, W) == size > W

\* VwapCalculator::add_trade, the state it leaves
add_trade(v, W, price, quantity) ==
    LET trades1 == Append(v.trades, [price |-> price, quantity |-> quantity])
        sum_pv1 == v.sum_pv + price * quantity
        sum_v1  == v.sum_v + quantity
        count1  == v.count + 1
        delta   == RSub(RInt(quantity), v.mean)
        mean1   == RAdd(v.mean, RDiv(delta, RInt(count1)))
        delta2  == RSub(RInt(quantity), mean1)
        m2_1    == RAdd(v.m2, RMul(delta, delta2))
    IN  IF WindowExceeded(Len(trades1), W)
        THEN LET old_trade == Head(trades1)
                 old_qty   == RInt(old_trade.quantity)
                 old_delta == RSub(old_qty, mean1)
                 count2    == count1 - 1
                 mean2     == RDiv(RSub(RMul(mean1, RInt(count2 + 1)), old_qty),
                                   RInt(count2))
                 old_delta2 == RSub(old_qty, mean2)
                 m2_2      == RSub(m2_1, RMul(old_delta, old_delta2))
             IN  [trades |-> Tail(trades1),
                  sum_pv |-> sum_pv1 - old_trade.price * old_trade.quantity,
                  sum_v  |-> sum_v1 - old_trade.quantity,
                  mean   |-> IF count2 > 0 THEN mean2 ELSE RInt(0),
                  m2     |-> IF count2 > 0
                             THEN IF RLess(m2_2, RInt(0)) THEN RInt(0) ELSE m2_2
                             ELSE RInt(0),
                  count  |-> count2]
        ELSE [trades |-> trades1, sum_pv |-> sum_pv1, sum_v |-> sum_v1,
              mean |-> mean1, m2 |-> m2_1, count |-> count1]

\* VwapCalculator::vwap (a rational)
vwap(v) == IF v.sum_v <= 0 THEN RInt(0) ELSE Rat(v.sum_pv, v.sum_v)

total_volume(v) == v.sum_v

trade_count(v) == Len(v.trades)

rolling_avg_size(v) == IF v.count = 0 THEN RInt(0) ELSE v.mean

\* VwapCalculator::rolling_std_dev, squared: the variance it takes the root of
rolling_std_dev_sq(v) ==
    IF v.count < 2 THEN RInt(0) ELSE RDiv(v.m2, RInt(v.count))

\* check_trade: "deviation > threshold_" for deviation = diff / std_dev with
\* std_dev > 0 and threshold_ >= 0, stated on the squares
ExceedsThreshold(diff, std_dev_sq, thr) ==
    /\ RLess(RInt(0), diff)
    /\ RLess(RMul(RInt(thr * thr), std_dev_sq), RMul(diff, diff))

\* AlertDetector::check_trade; the alert's timestamp is the trade's ordinal
check_trade(price, quantity, is_buy, rolling_avg, std_dev_sq, thr, now) ==
    IF ~ RLess(RInt(0), std_dev_sq)
    THEN NoAlert
    ELSE IF ExceedsThreshold(RSub(RInt(quantity), rolling_avg), std_dev_sq, thr)
         THEN [has_value |-> TRUE, price |-> price, quantity |-> quantity,
               is_buy |-> is_buy, timestamp |-> now]
         ELSE NoAlert

\* TradeFlow::TradeFlow, from the engine's configuration
TradeFlowCtor(W, thr) ==
    /\ tf_pc = "new"
    /\ tf_pc' = "ready"
    /\ window_size_' = W
    /\ threshold_' = thr
    /\ UNCHANGED <<trades_, sum_pv_, sum_v_, mean_, m2_, count_,
                   total_buy_volume_, total_sell_volume_, last_alert_,
                   pending_alert_, all_trades, tr_alert, tr_broadcast>>
    /\ UNCHANGED tradeFrame

\* MarketDataEngine::handle_agg_trade with TradeFlow::process_trade and
\* TradeFlow::current_metrics inlined
HandleAggTrade(trade) ==
    /\ tf_pc = "ready"
    /\ Len(all_trades) < MaxAdd
    /\ LET v       == add_trade(CurVwap, window_size_, trade.price,
                                trade.quantity)
           is_buy  == ~ trade.is_buyer_maker
           alert   == check_trade(trade.price, trade.quantity, is_buy,
                                  rolling_avg_size(v), rolling_std_dev_sq(v),
                                  threshold_, Len(all_trades) + 1)
           last    == IF alert.has_value THEN alert ELSE last_alert_
           metrics == [vwap |-> vwap(v), trade_count |-> trade_count(v),
                       last_alert |-> last]
       IN  /\ trades_' = v.trades
           /\ sum_pv_' = v.sum_pv
           /\ sum_v_' = v.sum_v
           /\ mean_' = v.mean
           /\ m2_' = v.m2
           /\ count_' = v.count
           /\ total_buy_volume_' =
                  IF is_buy THEN total_buy_volume_ + trade.quantity
                  ELSE total_buy_volume_
           /\ total_sell_volume_' =
                  IF is_buy THEN total_sell_volume_
                  ELSE total_sell_volume_ + trade.quantity
           /\ last_alert_' = last
           /\ pending_alert_' =
                  IF metrics.last_alert.has_value THEN metrics.last_alert
                  ELSE pending_alert_
           /\ tr_alert' = alert
           /\ tr_broadcast' =
                  IF metrics.last_alert.has_value THEN metrics.last_alert
                  ELSE NoAlert
    /\ all_trades' = Append(all_trades, trade)
    /\ UNCHANGED <<tf_pc, window_size_, threshold_>>
    /\ UNCHANGED tradeFrame

NextTrade ==
    \/ \E W \in 1..MaxWindow, thr \in 1..MaxThreshold : TradeFlowCtor(W, thr)
    \/ \E trade \in AggTrades : HandleAggTrade(trade)

SpecTrade == Init /\ [][NextTrade]_vars

\* ==== ReconnectStrategy with 64-bit millisecond counts ======================

MaxCalls    == 56     \* next_delay() calls since the last reset()
JitterShift == 2      \* jitter multipliers are the multiples of 2^-JitterShift

\* Config::Network::reconnect_jitter_factor, in tenths
jitter_factor_x10 == 3

\* the steps below leave every other component alone
reconnectFrame == <<ringVars, runVars, bcVars, feedVars, envVars, coreVars,
                    histVars, tradeVars, coreAuxVars, bookVars, pureVars>>

\* numeric_limits<int64_t>::min() and max()
INT64_MIN == [m |-> -1, e |-> 63, c |-> 0]
INT64_MAX == [m |-> 1, e |-> 63, c |-> -1]

\* m * 2^e written with an odd m
RECURSIVE Normalize(_)
Normalize(x) ==
    IF x.m = 0 THEN Ms(0)
    ELSE IF x.m % 2 = 0 THEN Normalize([x EXCEPT !.m = @ \div 2, !.e = @ + 1])
    ELSE x

\* is the real m * 2^e (m odd, |m| < 2^31) a value of int64_t ?
InRange64(x) ==
    IF x.m > 0
    THEN x.e < 63 /\ (63 - x.e > 30 \/ x.m < 2 ^ (63 - x.e))
    ELSE x.e <= 63 /\ (63 - x.e > 30 \/ -x.m <= 2 ^ (63 - x.e))

IsNegative(x) == x.m < 0

\* x <= i for a count i that fits the model's integers, i >= 0
AtMost(x, i) ==
    \/ x.m <= 0
    \/ x.e <= 15 /\ x.m < 2 ^ 15 /\ x.m * 2 ^ x.e + x.c <= i

\* std::min(current_delay_, max_delay_)
MinWithMax(x) == IF AtMost(x, max_delay_) THEN x ELSE Ms(max_delay_)

\* static_cast<double>(count): exact below 2^53, INT64_MAX rounds to 2^63
ToDouble(x) == IF x.c = 0 THEN x ELSE [m |-> 1, e |-> 63, c |-> 0]

\* static_cast<double>(x) * (jn / 2^JitterShift), then truncation toward zero
\* when the product is not an integer; the product itself is exact
JitterProduct(x, jn) ==
    LET d == ToDouble(x)
    IN  IF d.e >= JitterShift
        THEN Normalize([m |-> d.m * jn, e |-> d.e - JitterShift, c |-> 0])
        ELSE LET v == d.m * 2 ^ d.e * jn
                 q == Abs(v) \div 2 ^ JitterShift
             IN  Normalize(Ms(IF v < 0 THEN -q ELSE q))

\* static_cast<double>(x) * multiplier_
BackoffProduct(x) ==
    LET d == ToDouble(x)
    IN  Normalize([m |-> d.m * multiplier_, e |-> d.e, c |-> 0])

\* static_cast<std::int64_t>(double): the value when it is representable;
\* otherwise the behaviour is undefined and the conversion instruction
\* decides (cvttsd2si gives INT64_MIN, fcvtzs saturates)
CastOutcomes(x) ==
    IF InRange64(x) THEN {x}
    ELSE IF IsNegative(x) THEN {INT64_MIN} ELSE {INT64_MIN, INT64_MAX}

\* dist(rng_): the multiples of 2^-JitterShift in [1 - phi, 1 + phi)
Jitters ==
    {jn \in 1..(2 * 2 ^ JitterShift) :
        /\ (10 - jitter_factor_x10) * 2 ^ JitterShift <= 10 * jn
        /\ 10 * jn < (10 + jitter_factor_x10) * 2 ^ JitterShift}

\* ReconnectStrategy::next_delay
ReconnectNextDelay(jn) ==
    /\ rs_attempt_count_ < MaxCalls
    /\ LET delay == MinWithMax(rs_current_delay_)
           jp    == JitterProduct(delay, jn)
           np    == BackoffProduct(rs_current_delay_)
       IN  /\ rs_attempt_count_' = rs_attempt_count_ + 1
           /\ rs_delay' = delay
           /\ rs_jittered' \in CastOutcomes(jp)
           /\ rs_current_delay_' \in CastOutcomes(np)
           /\ rs_cast_ub' = (rs_cast_ub \/ ~InRange64(jp) \/ ~InRange64(np))
    /\ UNCHANGED reconnectFrame

\* ReconnectStrategy::reset
ReconnectReset ==
    /\ rs_attempt_count_ > 0
    /\ rs_current_delay_' = Ms(base_delay_)
    /\ rs_attempt_count_' = 0
    /\ UNCHANGED <<rs_delay, rs_jittered, rs_cast_ub>>
    /\ UNCHANGED reconnectFrame

NextReconnect ==
    \/ \E jn \in Jitters : ReconnectNextDelay(jn)
    \/ ReconnectReset

SpecReconnect == Init /\ [][NextReconnect]_vars

\* ==== compute core driven by arbitrary messages ============================

MaxId       == 2      \* update ids are 0 .. MaxId
MaxCorePx   == 1      \* prices in a message's levels are 1 .. MaxCorePx
MaxCoreQty  == 1      \* quantities in a message's levels are 0 .. MaxCoreQty
MaxMetrics  == 2      \* metrics messages broadcast

\* the steps below leave every other component alone
coreFrame == <<ringVars, runVars, bcVars, feedVars, envVars, histVars,
               queue, core_pc, gap_seen, tradeVars, reconnectVars, bookVars,
               pureVars>>

\* the level lists of one side of a message: none, or one level
LevelSeqs(maxp, maxq) ==
    {<<>>} \cup {<<Level(px, q)>> : px \in 1..maxp, q \in 0..maxq}

\* binance::DepthUpdate with any ids
DepthUpdates ==
    [first_update_id : 0..MaxId, final_update_id : 0..MaxId,
     prev_final_update_id : 0..MaxId,
     bids : LevelSeqs(MaxCorePx, MaxCoreQty),
     asks : LevelSeqs(MaxCorePx, MaxCoreQty)]

\* binance::DepthSnapshot
DepthSnapshots ==
    [last_update_id : 0..MaxId,
     bids : LevelSeqs(MaxCorePx, MaxCoreQty),
     asks : LevelSeqs(MaxCorePx, MaxCoreQty)]

\* EngineMessage with its payload
CoreMsgs ==
    [type : {"DepthUpdate"}, data : DepthUpdates]
    \cup [type : {"Snapshot"}, data : DepthSnapshots]
    \cup [type : {"AggTrade", "ConnectionLost", "ConnectionRestored",
                  "SequenceGap"}, data : {0}]

DepthUpdateIn(update) == [type |-> "DepthUpdate", data |-> update]
SnapshotIn(snapshot)  == [type |-> "Snapshot", data |-> snapshot]

\* update follows the book: pu = book.last_update_id and u >= U > pu
LocallyConsistent(update, b) ==
    /\ update.prev_final_update_id = b.last_update_id
    /\ update.final_update_id >= update.first_update_id
    /\ update.first_update_id > update.prev_final_update_id

\* MarketDataEngine::handle_sequence_gap
handle_sequence_gap(e) ==
    [e EXCEPT !.sync = "WaitingSnapshot", !.book = book_clear(@), !.call = TRUE]

\* MarketDataEngine::process_message on a message that carries its payload
process_payload(e, m) ==
    CASE m.type = "DepthUpdate"        -> handle_depth_update(e, m.data)
      [] m.type = "AggTrade"           -> handle_agg_trade(e)
      [] m.type = "Snapshot"           -> handle_snapshot(e, m.data)
      [] m.type = "ConnectionLost"     -> handle_connection_lost(e)
      [] m.type = "ConnectionRestored" -> handle_connection_restored(e)
      [] m.type = "SequenceGap"        -> handle_sequence_gap(e)

\* engine_thread_func: try_pop gave m, process_message(m)
CoreHandle(m) ==
    /\ core_in' = m.type
    /\ LET e == process_payload(CurCore, m) IN
        /\ sync_state_' = e.sync
        /\ last_processed_id_' = e.last
        /\ order_book_' = e.book
        /\ core_rs' = e.call
        /\ book_cleared' =
              IF m.type = "Snapshot" THEN FALSE
              ELSE (book_cleared \/ e.call)
    /\ await_snap' =
          IF m.type = "Snapshot" THEN FALSE
          ELSE (await_snap \/ core_rs'
                \/ m.type \in {"ConnectionLost", "ConnectionRestored",
                               "SequenceGap"})
    /\ snap_seen' = (snap_seen \/ m.type = "Snapshot")
    /\ applied_chain' =
          IF /\ m.type = "DepthUpdate"
             /\ sync_state_ = "Synced"
             /\ LocallyConsistent(m.data, order_book_)
          THEN Min({applied_chain + 1, 2})
          ELSE 0
    /\ snap_over' =
          (snap_over \/ (/\ m.type = "Snapshot"
                         /\ \E px \in DOMAIN order_book_.bids :
                               \A i \in 1..Len(m.data.bids) :
                                   m.data.bids[i].price # px))
    /\ UNCHANGED <<last_metrics_output_, n_metrics>>
    /\ UNCHANGED coreFrame

\* output_metrics: "if (sync_state_ != SyncState::Synced) return;"
MetricsAllowed_Mut(sync) == TRUE
MetricsAllowed(sync) == sync = "Synced"

\* engine_thread_func: try_pop gave nothing, output_metrics() with
\* broadcast_metrics() inlined; the interval test reads the clock
OutputMetrics ==
    /\ n_metrics < MaxMetrics
    /\ MetricsAllowed(sync_state_)
    /\ core_in' = "none"
    /\ order_book_' = build_snapshot(order_book_)
    /\ IF last_metrics_output_ = "due"
       THEN /\ last_metrics_output_' = "recent"
            /\ n_metrics' = n_metrics + 1
       ELSE UNCHANGED <<last_metrics_output_, n_metrics>>
    /\ UNCHANGED <<sync_state_, last_processed_id_, coreHist>>
    /\ UNCHANGED coreFrame

\* console_interval has passed since last_metrics_output_
MetricsIntervalElapses ==
    /\ last_metrics_output_ = "recent"
    /\ last_metrics_output_' = "due"
    /\ UNCHANGED <<sync_state_, last_processed_id_, order_book_, core_in,
                   coreHist, n_metrics>>
    /\ UNCHANGED coreFrame

NextCore ==
    \/ \E m \in CoreMsgs : CoreHandle(m)
    \/ OutputMetrics
    \/ MetricsIntervalElapses

SpecCore == Init /\ [][NextCore]_vars

\* ==== OrderBook: its member functions called with arbitrary arguments ========

MaxBookPx  == 2       \* prices in an argument's levels are 1 .. MaxBookPx
MaxBookQty == 2       \* quantities in an argument's levels are 0 .. MaxBookQty
MaxBookId  == 1       \* update ids are 0 .. MaxBookId

\* the steps below leave every other component alone
bookFrame == <<ringVars, runVars, bcVars, feedVars, envVars, coreVars,
               histVars, tradeVars, reconnectVars, coreAuxVars, pureVars>>

\* the DepthUpdate arguments of apply_update
BookUpdates ==
    [first_update_id : {0}, final_update_id : 0..MaxBookId,
     prev_final_update_id : {0},
     bids : LevelSeqs(MaxBookPx, MaxBookQty),
     asks : LevelSeqs(MaxBookPx, MaxBookQty)]

\* the DepthSnapshot arguments of apply_snapshot
BookSnapshots ==
    [last_update_id : 0..MaxBookId,
     bids : LevelSeqs(MaxBookPx, MaxBookQty),
     asks : LevelSeqs(MaxBookPx, MaxBookQty)]

\* what reading it->second through a cached iterator gives: the level's
\* quantity, or "dangling" when the level is no longer in the map
ReadQty(m, it) == IF it \in DOMAIN m THEN m[it] ELSE "dangling"

\* OrderBook::build_snapshot: the BookSnapshot it returns for book b, whose
\* caches it has refreshed
ReturnedSnapshot(b) ==
    [best_bid     |-> IF DOMAIN b.bids # {} THEN b.best_bid_it ELSE 0,
     best_bid_qty |-> IF DOMAIN b.bids # {}
                      THEN ReadQty(b.bids, b.best_bid_it) ELSE 0,
     best_ask     |-> IF DOMAIN b.asks # {} THEN b.best_ask_it ELSE 0,
     best_ask_qty |-> IF DOMAIN b.asks # {}
                      THEN ReadQty(b.asks, b.best_ask_it) ELSE 0,
     last_update_id |-> b.last_update_id]

\* OrderBook::apply_snapshot
BookApplySnapshot(snapshot) ==
    /\ book_' = book_apply_snapshot(book_, snapshot)
    /\ book_op' = "apply_snapshot"
    /\ book_ret' = ReturnedSnapshot(book_')
    /\ UNCHANGED bookFrame

\* OrderBook::apply_update
BookApplyUpdate(update) ==
    /\ book_' = apply_update(book_, update)
    /\ book_op' = "apply_update"
    /\ book_ret' = ReturnedSnapshot(book_')
    /\ UNCHANGED bookFrame

\* OrderBook::clear
BookClear ==
    /\ book_' = book_clear(book_)
    /\ book_op' = "clear"
    /\ UNCHANGED book_ret
    /\ UNCHANGED bookFrame

\* OrderBook::snapshot
BookSnapshotCall ==
    /\ book_' = build_snapshot(book_)
    /\ book_op' = "snapshot"
    /\ book_ret' = ReturnedSnapshot(book_')
    /\ UNCHANGED bookFrame

NextBook ==
    \/ \E snapshot \in BookSnapshots : BookApplySnapshot(snapshot)
    \/ \E update \in BookUpdates : BookApplyUpdate(update)
    \/ BookClear
    \/ BookSnapshotCall

SpecBook == Init /\ [][NextBook]_vars

\* ------------------------------------------------ AlertDetector (SpecAlert)

MaxChecks    == 2     \* check_trade calls
MaxAlertQty  == 4     \* quantities are 0 .. MaxAlertQty
MaxAvgHalves == 4     \* rolling_avg is 0, 1/2, .. MaxAvgHalves/2
MaxDevHalves == 2     \* rolling_std_dev is -1/2, 0, 1/2, .. MaxDevHalves/2
MaxSigma     == 2     \* thresholds are 0 .. MaxSigma

\* the steps below leave every other component alone
alertFrame == <<ringVars, runVars, bcVars, feedVars, envVars, coreVars,
                histVars, tradeVars, reconnectVars, coreAuxVars, bookVars,
                fixedVars,
                sizeVars>>

\* the doubles handed to check_trade
RollingAvgs == {Rat(n, 2) : n \in 0..MaxAvgHalves}
RollingStdDevs == {Rat(n, 2) : n \in -1..MaxDevHalves}

\* check_trade: "(quantity - rolling_avg) / rolling_std_dev"
Deviation(quantity, rolling_avg, rolling_std_dev) ==
    RDiv(RSub(RInt(quantity), rolling_avg), rolling_std_dev)

\* check_trade: "if (deviation > threshold_)"
DeviationExceeds_Mut(deviation, thr) == ~ RLess(deviation, thr)
DeviationExceeds(deviation, thr) == RLess(thr, deviation)

\* AlertDetector::check_trade on (price, quantity, is_buy, rolling_avg,
\* rolling_std_dev); the alert's timestamp is the call's ordinal
AlertDetector_check_trade(x, thr, now) ==
    IF ~ RLess(RInt(0), x.rolling_std_dev)
    THEN NoAlert
    ELSE LET deviation ==
                 Deviation(x.quantity, x.rolling_avg, x.rolling_std_dev)
         IN  IF DeviationExceeds(deviation, thr)
             THEN [has_value |-> TRUE, price |-> x.price,
                   quantity |-> x.quantity, is_buy |-> x.is_buy,
                   deviation |-> deviation, timestamp |-> now]
             ELSE NoAlert

\* AlertDetector::AlertDetector(std_dev_threshold)
AlertDetectorCtor(thr) ==
    /\ ad_pc = "new"
    /\ ad_pc' = "ready"
    /\ ad_threshold_' = RInt(thr)
    /\ UNCHANGED <<ad_calls, ad_in, ad_ret>>
    /\ UNCHANGED alertFrame

\* AlertDetector::set_threshold
SetThreshold(thr) ==
    /\ ad_pc = "ready"
    /\ ad_threshold_ # RInt(thr)
    /\ ad_threshold_' = RInt(thr)
    /\ UNCHANGED <<ad_pc, ad_calls, ad_in, ad_ret>>
    /\ UNCHANGED alertFrame

\* one call of AlertDetector::check_trade
CheckTrade(price, quantity, is_buy, rolling_avg, rolling_std_dev) ==
    /\ ad_pc = "ready"
    /\ ad_calls < MaxChecks
    /\ LET x == [called |-> TRUE, price |-> price, quantity |-> quantity,
                 is_buy |-> is_buy, rolling_avg |-> rolling_avg,
                 rolling_std_dev |-> rolling_std_dev,
                 threshold |-> ad_threshold_]
       IN  /\ ad_in' = x
           /\ ad_ret' = AlertDetector_check_trade(x, x.threshold,
                                                  ad_calls + 1)
    /\ ad_calls' = ad_calls + 1
    /\ UNCHANGED <<ad_pc, ad_threshold_>>
    /\ UNCHANGED alertFrame

NextAlert ==
    \/ \E thr \in 0..MaxSigma : AlertDetectorCtor(thr)
    \/ \E thr \in 0..MaxSigma : SetThreshold(thr)
    \/ \E price \in 1..MaxPrice, quantity \in 0..MaxAlertQty,
          is_buy \in BOOLEAN, rolling_avg \in RollingAvgs,
          rolling_std_dev \in RollingStdDevs :
            CheckTrade(price, quantity, is_buy, rolling_avg, rolling_std_dev)

SpecAlert == Init /\ [][NextAlert]_vars

\* ------------------------------------------ SpscQueue::size_approx (SpecSize)
\* The producer and the consumer of SpecSpsc run while size_approx() is called
\* from the producer's thread, the consumer's thread or a third thread.

MaxSizeCalls == 2     \* size_approx calls
SizeBits     == 4     \* width of std::size_t (indices stay below 2^SizeBits)

\* the steps below leave every other component alone
sizeFrame == <<runVars, bcVars, feedVars, envVars, coreVars, histVars,
               tradeVars, reconnectVars, coreAuxVars, bookVars, alertVars,
               fixedVars>>

SizeThreads == {"producer", "consumer", "other"}

\* unsigned subtraction of std::size_t
SizeSub(a, b) == (a - b) % (2 ^ SizeBits)

\* a thread inside size_approx() is not inside try_push / try_pop
ThreadFree(thread) ==
    /\ thread = "producer" => p_pc = "idle"
    /\ thread = "consumer" => c_pc = "idle"

\* const std::size_t tail = tail_.load(relaxed)
SizeLoadTail(thread) ==
    /\ sz_pc = "idle"
    /\ sz_calls < MaxSizeCalls
    /\ ThreadFree(thread)
    /\ sz_calls' = sz_calls + 1
    /\ sz_thread' = thread
    /\ sz_tail' = tail_
    /\ sz_ret' = NoSize
    /\ sz_pc' = "load_head"
    /\ UNCHANGED <<ringVars, sizeFrame>>

\* const std::size_t head = head_.load(relaxed); return tail - head
SizeLoadHead ==
    /\ sz_pc = "load_head"
    /\ sz_ret' = SizeSub(sz_tail, head_)
    /\ sz_pc' = "idle"
    /\ UNCHANGED <<ringVars, sizeFrame, sz_thread, sz_tail, sz_calls>>

\* try_push steps: the producer's thread is not inside size_approx
SizeProducerStep ==
    /\ ~ (sz_pc = "load_head" /\ sz_thread = "producer")
    /\ \/ PushLoadTail
       \/ PushLoadSeq
       \/ PushCheckAndConstruct
       \/ PushPublish
       \/ PushStoreTail

\* try_pop steps: the consumer's thread is not inside size_approx
SizeConsumerStep ==
    /\ ~ (sz_pc = "load_head" /\ sz_thread = "consumer")
    /\ \/ PopLoadHead
       \/ PopLoadSeq
       \/ PopCheckAndMove
       \/ PopRearm
       \/ PopStoreHead

NextSize ==
    \/ SizeProducerStep
    \/ SizeConsumerStep
    \/ \E thread \in SizeThreads : SizeLoadTail(thread)
    \/ SizeLoadHead

SpecSize == Init /\ [][NextSize]_vars

\* --------------------------------------------------- FixedPoint (SpecFixed)
\* FixedPoint<Decimals> over an IntBits-bit two's complement underlying_type.

Decimals     == 2     \* template parameter Decimals
IntBits      == 12    \* width of underlying_type
MaxIntDigits == 2     \* digits before the decimal point in a parsed string

\* the steps below leave every other component alone
fixedFrame == <<ringVars, runVars, bcVars, feedVars, envVars, coreVars,
                histVars, tradeVars, reconnectVars, coreAuxVars, bookVars,
                alertVars,
                sizeVars>>

\* numeric_limits<underlying_type>::max() and min()
IntMax == 2 ^ (IntBits - 1) - 1
IntMin == - (2 ^ (IntBits - 1))

\* FixedPoint::scale: 10^Decimals
RECURSIVE Pow10(_)
Pow10(k) == IF k = 0 THEN 1 ELSE 10 * Pow10(k - 1)
scale == Pow10(Decimals)

\* what a signed operation whose exact result is x leaves: x when it fits;
\* otherwise the behaviour is undefined, and the build either wraps or traps
Wrap(x) == ((x - IntMin) % (2 ^ IntBits)) + IntMin
SignedOutcomes(x) ==
    IF IntMin <= x /\ x <= IntMax
    THEN {[kind |-> "value", raw |-> x]}
    ELSE {[kind |-> "value", raw |-> Wrap(x)], [kind |-> "trap"]}

\* C++ integer division and remainder (toward zero)
TruncDiv(a, b) == IF a >= 0 THEN a \div b ELSE - ((- a) \div b)
TruncRem(a, b) == a - b * TruncDiv(a, b)

\* c - '0' for the characters '0' .. '9'
DigitChars == <<"0", "1", "2", "3", "4", "5", "6", "7", "8", "9">>
DigitVal(c) == (CHOOSE i \in 1..10 : DigitChars[i] = c) - 1
IsDigit(c) == \E i \in 1..10 : DigitChars[i] = c

\* std::to_string of an integer
RECURSIVE to_chars(_)
to_chars(n) ==
    IF n < 0 THEN <<"-">> \o to_chars(- n)
    ELSE IF n < 10 THEN <<DigitChars[n + 1]>>
    ELSE to_chars(n \div 10) \o <<DigitChars[(n % 10) + 1]>>

\* to_string: "while (frac_str.length() < Decimals) frac_str = "0" + frac_str"
RECURSIVE PadLeft(_)
PadLeft(frac_str) ==
    IF Len(frac_str) < Decimals THEN PadLeft(<<"0">> \o frac_str)
    ELSE frac_str

\* to_string: "while (!frac_str.empty() && frac_str.back() == '0') pop_back()"
RECURSIVE StripZeros(_)
StripZeros(frac_str) ==
    IF frac_str # <<>> /\ frac_str[Len(frac_str)] = "0"
    THEN StripZeros(SubSeq(frac_str, 1, Len(frac_str) - 1))
    ELSE frac_str

\* FixedPoint::to_string from "underlying_type integer_part" on
to_string_abs(negative, abs_val) ==
    LET integer_part == TruncDiv(abs_val, scale)
        frac_part    == TruncRem(abs_val, scale)
        int_str      == to_chars(integer_part)
        result       == IF frac_part > 0
                        THEN int_str \o <<".">>
                                 \o StripZeros(PadLeft(to_chars(frac_part)))
                        ELSE int_str
    IN  IF negative THEN <<"-">> \o result ELSE result

\* FixedPoint::to_string, every outcome: "-value_" is a signed negation
to_string(value_) ==
    IF value_ = 0 THEN {[kind |-> "string", chars |-> <<"0">>]}
    ELSE LET negative == value_ < 0
             abs_vals == IF negative THEN SignedOutcomes(- value_)
                         ELSE SignedOutcomes(value_)
         IN  {IF a.kind = "value"
              THEN [kind |-> "string",
                    chars |-> to_string_abs(negative, a.raw)]
              ELSE a : a \in abs_vals}

\* parse: the loop over the characters from pos on; st holds the locals
RECURSIVE ParseLoop(_, _, _)
ParseLoop(str, pos, st) ==
    IF pos > Len(str) THEN st
    ELSE LET c == str[pos]
         IN  IF c = "."
             THEN IF st.in_fraction
                  THEN [kind |-> "throw", what |-> "invalid_argument"]
                  ELSE ParseLoop(str, pos + 1,
                                 [st EXCEPT !.in_fraction = TRUE])
             ELSE IF ~ IsDigit(c)
             THEN [kind |-> "throw", what |-> "invalid_argument"]
             ELSE LET digit == DigitVal(c)
                      st1   == [st EXCEPT !.has_digits = TRUE]
                  IN  IF st.in_fraction
                      THEN IF st.frac_digits < Decimals
                           THEN ParseLoop(str, pos + 1,
                                    [st1 EXCEPT
                                       !.frac_part = st.frac_part * 10 + digit,
                                       !.frac_digits = st.frac_digits + 1])
                           ELSE ParseLoop(str, pos + 1, st1)
                      ELSE IF st.integer_part > IntMax \div 10
                           THEN [kind |-> "throw", what |-> "overflow_error"]
                           ELSE IF st.integer_part * 10 + digit > IntMax
                           THEN [kind |-> "ub"]
                           ELSE ParseLoop(str, pos + 1,
                                    [st1 EXCEPT !.integer_part =
                                         st.integer_part * 10 + digit])

\* parse: "while (frac_digits < Decimals) { frac_part *= 10; ++frac_digits; }"
RECURSIVE ScaleFrac(_, _)
ScaleFrac(frac_part, frac_digits) ==
    IF frac_digits < Decimals THEN ScaleFrac(frac_part * 10, frac_digits + 1)
    ELSE frac_part

\* parse: "if (integer_part > max_integer_part) throw"
TooLarge(integer_part) == integer_part > IntMax \div scale

\* FixedPoint::parse, every outcome
parse(str) ==
    IF str = <<>> THEN {[kind |-> "value", raw |-> 0]}
    ELSE LET negative == str[1] = "-"
             pos      == IF str[1] = "-" \/ str[1] = "+" THEN 2 ELSE 1
         IN  IF pos > Len(str)
             THEN {[kind |-> "throw", what |-> "invalid_argument"]}
             ELSE LET st == ParseLoop(str, pos,
                               [kind |-> "locals", integer_part |-> 0,
                                frac_part |-> 0, frac_digits |-> 0,
                                in_fraction |-> FALSE, has_digits |-> FALSE])
                  IN  IF st.kind = "throw" THEN {st}
                      ELSE IF st.kind = "ub"
                      THEN {[kind |-> "value", raw |-> v] : v \in IntMin..IntMax}
                               \cup {[kind |-> "trap"]}
                      ELSE IF ~ st.has_digits
                      THEN {[kind |-> "throw", what |-> "invalid_argument"]}
                      ELSE IF TooLarge(st.integer_part)
                      THEN {[kind |-> "throw", what |-> "overflow_error"]}
                      ELSE LET frac_part ==
                                   ScaleFrac(st.frac_part, st.frac_digits)
                               results == SignedOutcomes(
                                   st.integer_part * scale + frac_part)
                           IN  IF ~ negative THEN results
                               ELSE UNION {IF r.kind = "value"
                                           THEN SignedOutcomes(- r.raw)
                                           ELSE {r} : r \in results}

\* ---- the strings handed to parse

\* digit strings of a given length range
DigitStrings(lo, hi) ==
    UNION {[1..n -> {DigitChars[i] : i \in 1..10}] : n \in lo..hi}

\* the decimal a digit string denotes, as an integer
RECURSIVE DigitsValue(_)
DigitsValue(ds) ==
    IF ds = <<>> THEN 0
    ELSE 10 * DigitsValue(SubSeq(ds, 1, Len(ds) - 1)) + DigitVal(ds[Len(ds)])

\* canonical strings: optional "-", an integer part without leading zeros,
\* an optional "." with 1 .. Decimals digits of which the last is not "0",
\* and no negative zero; text is the string, units its value in 10^-Decimals
CanonicalStrings ==
    {x \in {[text  |-> sign \o ip \o (IF fp = <<>> THEN <<>> ELSE <<".">> \o fp),
             units |-> (IF sign = <<>> THEN 1 ELSE -1)
                          * (DigitsValue(ip) * scale
                             + DigitsValue(fp) * Pow10(Decimals - Len(fp)))] :
                sign \in {<<>>, <<"-">>},
                ip \in {d \in DigitStrings(1, MaxIntDigits) :
                            Len(d) = 1 \/ d[1] # "0"},
                fp \in {<<>>} \cup {d \in DigitStrings(1, Decimals) :
                                        d[Len(d)] # "0"}} :
        /\ ~ (x.units = 0 /\ x.text # <<"0">>)
        /\ IntMin <= x.units /\ x.units <= IntMax}

CanonicalTexts == {x.text : x \in CanonicalStrings}

\* other spellings of the decimal str denotes: zeros after the last
\* fractional digit, a bare ".", a leading "+", a leading "0"
HasPoint(str) == \E i \in 1..Len(str) : str[i] = "."
Spellings(str) ==
    (IF HasPoint(str) THEN {str \o <<"0">>}
     ELSE {str \o <<".", "0">>, str \o <<".">>})
        \cup (IF str[1] = "-" THEN {<<"-", "0">> \o Tail(str)}
              ELSE {<<"+">> \o str, <<"0">> \o str})

\* FixedPoint::parse(str) for a canonical string
FpParse(str) ==
    /\ fp_pc = "idle"
    /\ fp_pc' = "parsed"
    /\ fp_str' = str
    /\ fp_parsed' \in parse(str)
    /\ UNCHANGED <<fp_text, fp_str2, fp_parsed2>>
    /\ UNCHANGED fixedFrame

\* to_string() of the parsed value
FpToString ==
    /\ fp_pc = "parsed"
    /\ fp_parsed.kind = "value"
    /\ fp_pc' = "printed"
    /\ fp_text' \in to_string(fp_parsed.raw)
    /\ UNCHANGED <<fp_str, fp_parsed, fp_str2, fp_parsed2>>
    /\ UNCHANGED fixedFrame

\* FixedPoint::parse of another spelling of the same decimal
FpParseAgain ==
    /\ fp_pc = "parsed"
    /\ fp_pc' = "compared"
    /\ \E str \in Spellings(fp_str) :
           /\ fp_str2' = str
           /\ fp_parsed2' \in parse(str)
    /\ UNCHANGED <<fp_str, fp_parsed, fp_text>>
    /\ UNCHANGED fixedFrame

NextFixed ==
    \/ \E str \in CanonicalTexts : FpParse(str)
    \/ FpToString
    \/ FpParseAgain

SpecFixed == Init /\ [][NextFixed]_vars

\* ==== properties ============================================================

\* ---- SpscQueue (SpecSpsc) ------------------------------------------------

\* s is a prefix of t
IsPrefix(s, t) ==
    /\ Len(s) <= Len(t)
    /\ \A i \in 1..Len(s) : s[i] = t[i]

ReplayFrom(b, i, S) ==
    [j \in 1..(Len(b) - i + 1) |-> DepthUpdateMsg(b[i + j - 1], S)]

\* b[i] satisfies U <= S+1 <= u and every earlier buffered update has u <= S
BridgesAt(b, i, S) ==
    /\ Upd(b[i]).first_update_id <= S + 1
    /\ S + 1 <= Upd(b[i]).final_update_id
    /\ \A j \in 1..(i - 1) : Upd(b[j]).final_update_id <= S

\* the first buffered update with u > S has U > S+1
MismatchAt(b, i, S) ==
    /\ Upd(b[i]).final_update_id > S
    /\ Upd(b[i]).first_update_id > S + 1
    /\ \A j \in 1..(i - 1) : Upd(b[j]).final_update_id <= S

\* C5: on a snapshot with lastUpdateId S and buffer b1..bn the feed first
\* emits the Snapshot; if bi is the bridging update (U <= S+1 <= u, every
\* earlier u <= S) it then emits exactly bi..bn in order, empties the buffer
\* and enters Live; if every buffered u <= S (or the buffer is empty) it emits
\* no DepthUpdate and enters Live
C5_BufferWalk ==
    [][op'.h = "snapshot" =>
         LET S == op'.a
             b == buffered_updates_
         IN  /\ out' # <<>>
             /\ Head(out') = SnapshotMsg(S)
             /\ \A i \in 1..Len(b) :
                    BridgesAt(b, i, S) =>
                        /\ out' = <<SnapshotMsg(S)>> \o ReplayFrom(b, i, S)
                        /\ buffered_updates_' = <<>>
                        /\ state_' = "Live"
             /\ (\A i \in 1..Len(b) : Upd(b[i]).final_update_id <= S) =>
                        /\ out' = <<SnapshotMsg(S)>>
                        /\ state_' = "Live"
      ]_vars

\* a walk skipped the first buffered update and replayed the other two
C5_SkippedThenReplayed ==
    /\ op.h = "snapshot"
    /\ state_ = "Live"
    /\ out = <<SnapshotMsg(op.a), DepthUpdateMsg(2, op.a), DepthUpdateMsg(3, op.a)>>
    /\ buffered_updates_ = <<>>

\* C6: if the first buffered update with u > S has U > S+1, the feed emits no
\* buffered DepthUpdate, is WaitingSnapshot (not Live) afterwards with an
\* empty buffer, and has issued exactly one new snapshot request
C6_SnapshotStreamMismatch ==
    [][op'.h = "snapshot" =>
         LET S == op'.a
             b == buffered_updates_
         IN  \A i \in 1..Len(b) :
                MismatchAt(b, i, S) =>
                    /\ out' = <<SnapshotMsg(S)>>
                    /\ state_' = "WaitingSnapshot"
                    /\ buffered_updates_' = <<>>
                    /\ snapshot_requested_'
                    /\ rest' = (rest - 1) + 1
      ]_vars

\* a snapshot older than the second of two buffered updates was answered by
\* a new request
C6_MismatchHandled ==
    /\ op.h = "snapshot"
    /\ op.a < FinalId(0)
    /\ state_ = "WaitingSnapshot"
    /\ out = <<SnapshotMsg(op.a)>>
    /\ stream_pos >= 2
    /\ snapshot_requested_
    /\ rest = 1

\* C7: while WaitingSnapshot a depth update is appended to the buffer and not
\* emitted; an agg-trade is emitted at once whatever the FeedState and is
\* not buffered
C7_BufferDepthForwardTrades ==
    [][/\ (op'.h = "depth" /\ state_ = "WaitingSnapshot") =>
            /\ buffered_updates_' = Append(buffered_updates_, op'.b)
            /\ out' = <<>>
       /\ op'.h = "trade" =>
            /\ out' = <<AggTradeMsg>>
            /\ buffered_updates_' = buffered_updates_
            /\ state_' = state_
      ]_vars

\* a trade was forwarded while two depth updates sat in the buffer
C7_TradeWhileBuffering ==
    /\ op.h = "trade"
    /\ state_ = "WaitingSnapshot"
    /\ buffered_updates_ = <<1, 2>>
    /\ out = <<AggTradeMsg>>

\* C8: each failure of the upstream WebSocket (an error reported by the
\* client, or a close the feed did not ask for) moves the feed to
\* Reconnecting, emits one ConnectionLost, calls next_delay() once (the
\* attempt counter grows by one) and leaves one reconnect timer pending
C8_OneLossPerFailure ==
    [][(op'.h \in {"ws_fail", "ws_closed"} /\ ~stopped) =>
            /\ state_' = "Reconnecting"
            /\ out' = <<ConnectionLost>>
            /\ attempt_count_' = attempt_count_ + 1
            /\ timer_armed'
      ]_vars

\* C9: once stop() has run the FeedState is Disconnected and stays so: a timer
\* expiry, a WebSocket error or close callback, or a REST response delivered
\* afterwards changes no state and starts no connection, timer or request
C9_StoppedStaysDisconnected ==
    [][(stopped /\ op'.h \in {"timer_expire", "timer", "ws_fail", "ws_closed",
                               "ws_close_done", "snapshot", "snapshot_err"}) =>
            /\ state_' = "Disconnected"
            /\ ~timer_armed'
            /\ n_conns' = n_conns
            /\ rest' <= rest
      ]_vars

\* C10: when a WebSocket handshake completes the feed is WaitingSnapshot with
\* an empty buffer, the reconnect policy is back at its base delay with
\* attempt count 0, exactly ConnectionRestored has been emitted and a
\* snapshot request has been issued; a Snapshot is emitted only by the
\* response to a request issued earlier, so after the ConnectionRestored
C10_HandshakeCompletion ==
    [][/\ op'.h = "ws_connected" =>
            /\ state_' = "WaitingSnapshot"
            /\ buffered_updates_' = <<>>
            /\ current_delay_' = base_delay_
            /\ attempt_count_' = 0
            /\ out' = <<ConnectionRestored(op'.a)>>
            /\ snapshot_requested_'
            /\ rest' = rest + 1
       /\ (\E i \in 1..Len(out') : out'[i].type = "Snapshot") =>
            /\ op'.h = "snapshot"
            /\ rest > 0
      ]_vars

\* the second connection's handshake completed after a failure had raised the
\* attempt counter and the delay
C10_RestoredAfterBackoff ==
    /\ op.h = "ws_connected"
    /\ op.a = 2
    /\ attempt_count_ = 0
    /\ current_delay_ = base_delay_
    /\ out = <<ConnectionRestored(2)>>
    /\ state_ = "WaitingSnapshot"

\* ---- MarketDataEngine (Spec) ---------------------------------------------

\* this step is the compute core taking message m from the head of the queue
CoreTakes(m) ==
    /\ core_pc = "idle"
    /\ queue # <<>>
    /\ Head(queue) = m
    /\ queue' = Tail(queue)

\* this step is the compute core, Synced, taking a DepthUpdate from the queue
CoreTakesDepthWhileSynced ==
    /\ sync_state_ = "Synced"
    /\ queue # <<>>
    /\ Head(queue).type = "DepthUpdate"
    /\ CoreTakes(Head(queue))

\* the step treated the update as a gap
TreatedAsGap ==
    /\ sync_state_' = "WaitingSnapshot"
    /\ order_book_'.bids = EmptyMap
    /\ order_book_'.asks = EmptyMap
    /\ order_book_'.last_update_id = 0
    /\ core_pc' = "rs_call"
    /\ last_processed_id_' = last_processed_id_

\* book side m holds what the levels say: quantity 0 absent, else present
SideHolds(m, levels) ==
    \A i \in 1..Len(levels) :
        IF levels[i].qty = 0 THEN levels[i].price \notin DOMAIN m
        ELSE levels[i].price \in DOMAIN m /\ m[levels[i].price] = levels[i].qty

\* the step applied update
Applied(update) ==
    /\ sync_state_' = "Synced"
    /\ order_book_'.last_update_id = update.final_update_id
    /\ last_processed_id_' = update.final_update_id
    /\ SideHolds(order_book_'.bids, update.bids)
    /\ SideHolds(order_book_'.asks, update.asks)
    /\ core_pc' = "idle"

\* C2: with (995,999), (1000,1002), (1003,1004) buffered and a snapshot with
\* last_update_id 1001, the feed replays (1000,1002) and (1003,1004) after the
\* Snapshot; once the core has processed the last of them the book's
\* last_update_id is 1004
C2_BridgingScenarioReaches1004 ==
    [][CoreTakes(DepthUpdateMsg(3, 1001)) => order_book_'.last_update_id = 1004]_vars

\* C3: while Synced a processed DepthUpdate is a gap exactly when its pu
\* differs from book.last_update_id; on a gap sync becomes WaitingSnapshot,
\* the book is cleared (both sides empty, last_update_id 0), request_snapshot
\* is invoked once and the update is not applied; otherwise the update is
\* applied and last_processed_id and book.last_update_id become u
C3_GapExactlyWhenPuDiffers ==
    [][CoreTakesDepthWhileSynced =>
         LET update == Upd(Head(queue).id) IN
         IF update.prev_final_update_id # order_book_.last_update_id
           THEN TreatedAsGap
           ELSE Applied(update)
      ]_vars

\* C4: after the core has detected a gap, with the WebSocket connected ever
\* since start and no REST request failed, the core that is Synced on a
\* snapshot S applies the update that follows S in the gap-free stream (the
\* one with U <= S+1 <= u) instead of requesting yet another snapshot
C4_ResyncAppliesFollowingUpdate ==
    [][( /\ gap_seen
         /\ n_conns = 1 /\ ws[1] = "open" /\ attempt_count_ = 0
         /\ CoreTakesDepthWhileSynced
         /\ order_book_.last_update_id = last_processed_id_
         /\ Upd(Head(queue).id).first_update_id <= last_processed_id_ + 1
         /\ last_processed_id_ + 1 <= Upd(Head(queue).id).final_update_id )
       => Applied(Upd(Head(queue).id))
      ]_vars

\* C11: request_snapshot() called while a snapshot request is outstanding is
\* a no-op: the call returns at its first test and leaves the FeedState, the
\* buffered updates and the number of outstanding REST requests unchanged
C11_RequestSnapshotIdempotent ==
    [][(op'.h = "rs_check" /\ rest > 0) =>
            /\ core_pc' = "idle"
            /\ state_' = state_
            /\ buffered_updates_' = buffered_updates_
            /\ rest' = rest
      ]_vars

\* ---- SpscQueue, continued (SpecSpsc) -------------------------------------

\* positions whose slot the consumer has re-armed / the producer has published
Rearmed == head_ + (IF c_pc = "store_head" THEN 1 ELSE 0)
Published == tail_ + (IF p_pc = "store_tail" THEN 1 ELSE 0)

\* this step is try_push's full test / try_pop's empty test
PushTestStep == p_pc = "check" /\ p_pc' # "check"
PopTestStep == c_pc = "check" /\ c_pc' # "check"

C14_ShutdownTerminates ==
    shutdown_requested_ =>
        /\ net_pc # "aborted"
        /\ eng_pc # "aborted"

\* C15: when the network thread has returned, its last queue operation was an
\* accepted push of Shutdown; when the engine thread has left its loop, it left
\* by consuming Shutdown, and it has processed every event the queue accepted
C15_ShutdownInBand ==
    /\ net_pc = "returned" => net_last_push = <<"Shutdown", TRUE>>
    /\ eng_pc = "returned" =>
          /\ eng_exit = "Shutdown"
          /\ n_processed = n_accepted

\* ---- back-pressure and thread confinement (Spec) --------------------------

\* the feed is Live on an open connection and has nothing pending: no snapshot
\* request in flight, no reconnect timer
FeedSettled ==
    /\ state_ = "Live"
    /\ ws_client_ # 0
    /\ ws[ws_client_] = "open"
    /\ ~timer_armed
    /\ timer_queued = 0
    /\ rest = 0

\* C16: the core does not stay unsynced while the feed is Live: when the feed
\* is settled in Live, the queue has drained and the compute thread is idle,
\* the core is Synced.  (In such a state only depth updates can follow, and
\* handle_depth_update discards them while the core is not Synced.)
C16_BackPressureRecoverable ==
    (FeedSettled /\ queue = <<>> /\ core_pc = "idle") => sync_state_ = "Synced"

\* C17: the compute thread never runs FeedHandler::request_snapshot, and
\* buffered_updates_ and snapshot_requested_ change only in steps taken while
\* the compute thread is outside the feed handler
C17_FeedStateContextLocal ==
    [][/\ core_pc' \notin {"rs_call", "rs_body"}
       /\ (buffered_updates_' # buffered_updates_
            \/ snapshot_requested_' # snapshot_requested_) => core_pc = "idle"
      ]_vars

\* ---- output WebSocketServer (SpecBroadcast) -------------------------------

\* messages buffered for session s behind the write in progress
Pending(s) == Len(write_queue_[s])

\* C18: the messages pending for a subscriber in the set never exceed the
\* buffer bound, however slowly its writes complete
C18_SlowConsumerEviction ==
    \A s \in sessions_ : Pending(s) <= SendBufferBound

\* C19: broadcast() returns: the compute thread is never left blocked (or
\* aborted) inside broadcast -> send -> do_write
C19_BroadcastNeverBlocks == bc_pc = "idle"

\* C20: for every subscriber in the set, the messages written to its socket
\* are the broadcasts since it was added, in order, none skipped, duplicated
\* or reordered
C20_PerSubscriberOrder ==
    \A s \in sessions_ :
        \A i \in 1..Len(wire[s]) : wire[s][i] = joined[s] + i

\* a subscriber added after the first broadcast has had a message written,
\* has a write in progress and a further message queued behind it
C20_WrittenBehindQueue ==
    \E s \in sessions_ :
        /\ joined[s] >= 1
        /\ Len(wire[s]) >= 1
        /\ current_message_[s] # 0
        /\ write_queue_[s] # <<>>

\* ---- trade flow (SpecTrade) ------------------------------------------------

\* C21: handle_agg_trade broadcasts an alert for a trade only when
\* check_trade raised an alert for that very trade.
C21_AlertOnlyForFiringTrade ==
    tr_broadcast.has_value => tr_alert.has_value /\ tr_broadcast = tr_alert


\* ---- ReconnectStrategy (SpecReconnect) ------------------------------------

\* C22: the delay next_delay() returns is never negative and never larger
\* than (1 + phi) * max_delay_, however many calls were made since reset().
C22_ReturnedDelayBounded ==
    rs_attempt_count_ > 0 =>
        /\ ~ IsNegative(rs_jittered)
        /\ AtMost(rs_jittered, ((10 + jitter_factor_x10) * max_delay_) \div 10)


\* ---- compute core (SpecCore) ------------------------------------------------

\* map m holds exactly the levels of the list that have a positive quantity
HoldsExactly(m, levels) ==
    /\ \A px \in DOMAIN m :
          \E i \in 1..Len(levels) :
              levels[i].price = px /\ levels[i].qty = m[px] /\ m[px] > 0
    /\ \A i \in 1..Len(levels) :
          levels[i].qty > 0 => levels[i].price \in DOMAIN m

\* C23: processing a Snapshot, in whatever sync state, leaves the book with
\* exactly the snapshot's levels of positive quantity, book.last_update_id and
\* last_processed_id equal to the snapshot's last_update_id, and sync Synced.
C23_SnapshotReplacesBook ==
    [][\A snapshot \in DepthSnapshots :
          CoreHandle(SnapshotIn(snapshot)) =>
              /\ HoldsExactly(order_book_'.bids, snapshot.bids)
              /\ HoldsExactly(order_book_'.asks, snapshot.asks)
              /\ order_book_'.last_update_id = snapshot.last_update_id
              /\ last_processed_id_' = snapshot.last_update_id
              /\ sync_state_' = "Synced"
      ]_vars

\* a Snapshot has replaced a book that held a level it does not name, and the
\* core is Synced on it
C23_SnapshotOverOldLevels ==
    /\ snap_over
    /\ sync_state_ = "Synced"
    /\ ~ await_snap
    /\ order_book_.last_update_id = last_processed_id_
    /\ DOMAIN order_book_.bids # {}


\* this step is process_message on a DepthUpdate
CoreHandlesDepth ==
    /\ core_in' = "DepthUpdate"
    /\ UNCHANGED <<last_metrics_output_, n_metrics>>

\* C24: once a ConnectionLost, ConnectionRestored or SequenceGap has been
\* processed, or a gap has been detected, a DepthUpdate processed before the
\* next Snapshot changes neither the book (levels, last_update_id, caches) nor
\* last_processed_id nor the sync state, and request_snapshot is not called.
C24_DepthDroppedUntilSnapshot ==
    [][(await_snap /\ CoreHandlesDepth) =>
              /\ order_book_' = order_book_
              /\ last_processed_id_' = last_processed_id_
              /\ sync_state_' = sync_state_
              /\ ~ core_rs'
      ]_vars

\* a loss, restore or gap came after a Snapshot had filled the book, and the
\* book that later updates are dropped on still has its levels
C24_AwaitingWithStaleBook ==
    /\ await_snap
    /\ snap_seen
    /\ ~ core_rs
    /\ ~ book_cleared
    /\ DOMAIN order_book_.bids # {}
    /\ last_processed_id_ > 0


\* C25: a metrics message is broadcast only in a step that starts with the
\* core Synced: a Snapshot has been processed, no loss, restore or gap came
\* after it, and the book has not been cleared since.
C25_MetricsOnlyWhileSynced ==
    [][n_metrics' # n_metrics =>
          /\ sync_state_ = "Synced"
          /\ snap_seen
          /\ ~ await_snap
          /\ ~ book_cleared
      ]_vars

\* metrics have been broadcast, then the core left Synced with a broadcast due
C25_MetricsDueWhileWaiting ==
    /\ n_metrics >= 1
    /\ n_metrics < MaxMetrics
    /\ last_metrics_output_ = "due"
    /\ sync_state_ = "WaitingSnapshot"
    /\ book_cleared


\* C29: when the core applies a depth update that is locally consistent
\* (pu = book.last_update_id and u >= U > pu), the book's last_update_id
\* afterwards is the update's u and not below what it was.
C29_LastUpdateIdMonotone ==
    [][(sync_state_ = "Synced" /\ CoreHandlesDepth) =>
          \A update \in DepthUpdates :
              ( /\ LocallyConsistent(update, order_book_)
                /\ CoreHandle(DepthUpdateIn(update)) )
              => /\ order_book_'.last_update_id = update.final_update_id
                 /\ order_book_'.last_update_id >= order_book_.last_update_id
      ]_vars

\* the core has applied two locally consistent updates in a row
C29_AppliedOnTop ==
    /\ applied_chain = 2
    /\ core_in = "DepthUpdate"
    /\ sync_state_ = "Synced"
    /\ order_book_.last_update_id = MaxId
    /\ last_processed_id_ = MaxId


\* ---- OrderBook (SpecBook) ---------------------------------------------------

\* side m after the levels: a named price maps to its quantity when that is
\* positive and has no entry otherwise; every other price is as in m0
SideAfter(m, m0, levels) ==
    /\ SideHolds(m, levels)
    /\ \A px \in (DOMAIN m \cup DOMAIN m0) :
          (\A i \in 1..Len(levels) : levels[i].price # px) =>
              /\ px \in DOMAIN m /\ px \in DOMAIN m0
              /\ m[px] = m0[px]

\* C26: after apply_update(u) each side maps every price named in u to its
\* quantity if positive and has no entry for it otherwise, every other price
\* keeps its quantity, last_update_id is u.final_update_id, no stored
\* quantity is <= 0, and the best bid returned is the highest bid left.
C26_ApplyUpdateLevelSemantics ==
    [][book_op' = "apply_update" =>
       \A update \in BookUpdates :
          BookApplyUpdate(update) =>
              /\ SideAfter(book_'.bids, book_.bids, update.bids)
              /\ SideAfter(book_'.asks, book_.asks, update.asks)
              /\ book_'.last_update_id = update.final_update_id
              /\ \A px \in DOMAIN book_'.bids : book_'.bids[px] > 0
              /\ \A px \in DOMAIN book_'.asks : book_'.asks[px] > 0
              /\ DOMAIN book_'.bids # {} =>
                    /\ book_ret'.best_bid = Max(DOMAIN book_'.bids)
                    /\ book_ret'.best_bid_qty = book_'.bids[book_ret'.best_bid]
      ]_vars

\* an update has removed the best bid of a two-level side: the lower level
\* is now the best
C26_BestBidRemoved ==
    /\ book_op = "apply_update"
    /\ DOMAIN book_.bids = {1}
    /\ book_.best_bid_valid
    /\ book_.best_bid_it = 1
    /\ book_ret.best_bid = 1
    /\ book_ret.best_bid_qty = MaxBookQty


\* the best level of a side as the map has it: <<price, quantity>> of the
\* first element, <<0, 0>> for an empty side
BestOf(m, bid) ==
    IF DOMAIN m = {} THEN <<0, 0>>
    ELSE LET px == IF bid THEN Max(DOMAIN m) ELSE Min(DOMAIN m)
         IN  <<px, m[px]>>

\* C27: the BookSnapshot returned by apply_snapshot, apply_update or
\* snapshot reports the highest bid and the lowest ask with their current
\* quantities (0 for an empty side), and a cache flag that is set goes with a
\* cached position that is the first element of its side.
C27_CachedBestAgreesWithBook ==
    /\ book_op \in {"apply_snapshot", "apply_update", "snapshot"} =>
          /\ <<book_ret.best_bid, book_ret.best_bid_qty>> = BestOf(book_.bids, TRUE)
          /\ <<book_ret.best_ask, book_ret.best_ask_qty>> = BestOf(book_.asks, FALSE)
    /\ book_.best_bid_valid =>
          /\ DOMAIN book_.bids # {}
          /\ book_.best_bid_it = Max(DOMAIN book_.bids)
    /\ book_.best_ask_valid =>
          /\ DOMAIN book_.asks # {}
          /\ book_.best_ask_it = Min(DOMAIN book_.asks)

\* snapshot() after clear() after a book with cached best levels on both sides
C27_SnapshotAfterClear ==
    /\ book_op = "snapshot"
    /\ book_.bids = EmptyMap
    /\ book_.asks = EmptyMap
    /\ ~ book_.best_bid_valid
    /\ book_.best_bid_it = MaxBookPx
    /\ book_ret.best_bid = 0
    /\ book_ret.best_ask_qty = 0

\* C28: whenever both sides of the book are non-empty, the lowest ask price
\* is above the highest bid price.
C28_BestAskAboveBestBid ==
    (DOMAIN book_.bids # {} /\ DOMAIN book_.asks # {}) =>
        Min(DOMAIN book_.asks) > Max(DOMAIN book_.bids)


\* ---- VwapCalculator (SpecTrade) ------------------------------------------------

\* the trades the window should hold: the last min(n, W) of all n trades
RecentTrades ==
    LET n == Len(all_trades)
        k == IF n < window_size_ THEN n ELSE window_size_
    IN  SubSeq(all_trades, n - k + 1, n)

RECURSIVE SumQty(_)
SumQty(ts) == IF ts = <<>> THEN 0 ELSE Head(ts).quantity + SumQty(Tail(ts))

RECURSIVE SumPriceQty(_)
SumPriceQty(ts) ==
    IF ts = <<>> THEN 0
    ELSE Head(ts).price * Head(ts).quantity + SumPriceQty(Tail(ts))

\* C30: after n add_trade calls on a calculator with window W >= 1,
\* trade_count() is min(n, W), total_volume() is the sum of the quantities of
\* the last min(n, W) trades, vwap() is their sum of price * quantity divided
\* by that volume (0 when the volume is not positive), and count_ equals
\* trade_count().
C30_RollingWindow ==
    tf_pc = "ready" =>
        /\ trade_count(CurVwap) = Len(RecentTrades)
        /\ total_volume(CurVwap) = SumQty(RecentTrades)
        /\ vwap(CurVwap) =
              IF SumQty(RecentTrades) <= 0 THEN RInt(0)
              ELSE Rat(SumPriceQty(RecentTrades), SumQty(RecentTrades))
        /\ count_ = trade_count(CurVwap)

\* the window has slid twice over trades of positive quantity and the VWAP of
\* what is left is not a whole number
C30_WindowSlid ==
    /\ tf_pc = "ready"
    /\ window_size_ = 2
    /\ Len(all_trades) = 4
    /\ all_trades[1].quantity > 0
    /\ all_trades[2].quantity > 0
    /\ vwap(CurVwap).d > 1


C32_VolumesOfWindow ==
    /\ total_buy_volume_ + total_sell_volume_ = SumQty(RecentTrades)
    /\ trade_count(CurVwap) = Len(RecentTrades)

\* C33: for every canonical decimal string s with at most Decimals
\* fractional digits within the representable range, parse(s).to_string()
\* equals s; and two strings denoting the same decimal parse to values with
\* equal raw representation.
C33_RoundTrip ==
    /\ fp_pc # "idle" => fp_parsed.kind = "value"
    /\ fp_pc = "printed" =>
           /\ fp_text.kind = "string"
           /\ fp_text.chars = fp_str
    /\ fp_pc = "compared" =>
           /\ fp_parsed2.kind = "value"
           /\ fp_parsed2.raw = fp_parsed.raw

\* C34: the feed's buffered-updates list is non-empty only while FeedState
\* is WaitingSnapshot or Syncing; with FeedState Disconnected, Connecting,
\* Live or Reconnecting the buffer is empty.
C34_BufferLifecycle ==
    state_ \in {"Disconnected", "Connecting", "Live", "Reconnecting"} =>
        buffered_updates_ = <<>>

\* C35: at most one REST snapshot request is outstanding at any time, and
\* snapshot_requested_ is true exactly when one is.
C35_OneSnapshotRequest ==
    /\ rest <= 1
    /\ snapshot_requested_ <=> rest = 1

\* C36: whenever the compute core's sync state is Synced, its
\* last_processed_id equals the book's last_update_id, after every processed
\* event (Snapshot, DepthUpdate applied or rejected, ConnectionLost,
\* ConnectionRestored, SequenceGap).
C36_ProcessedIdIsBookId ==
    sync_state_ = "Synced" => last_processed_id_ = order_book_.last_update_id

\* a depth update with final id 1 was applied while Synced, on top of a
\* snapshot with lastUpdateId 0
C36_UpdateAppliedWhileSynced ==
    /\ core_in = "DepthUpdate"
    /\ snap_seen
    /\ sync_state_ = "Synced"
    /\ last_processed_id_ = 1
    /\ order_book_.last_update_id = 1
    /\ applied_chain = 1

\* C37: in every reachable state in which FeedState is WaitingSnapshot, a
\* REST snapshot request is outstanding (its response is still to be
\* delivered), whatever mix of WS connects, WS failures, snapshot responses
\* and compute-side request_snapshot() calls led there.
C37_WaitingImpliesRequestOutstanding ==
    state_ = "WaitingSnapshot" => rest >= 1

\* the feed is WaitingSnapshot because a snapshot response did not line up
\* with the buffer and apply_snapshot asked again, on the second connection
C37_WaitingAfterMismatch ==
    /\ state_ = "WaitingSnapshot"
    /\ op.h = "snapshot"
    /\ n_conns = 2
    /\ rest = 1
    /\ snapshot_requested_

\* C38: FeedState is WaitingSnapshot, Syncing or Live only while the current
\* upstream WS connection is established; a snapshot response or a
\* request_snapshot() call that arrives while the feed is Reconnecting or
\* Connecting does not move it to one of these states.  Stated for a feed
\* on which stop() has not been called.
C38_SyncStatesNeedConnection ==
    (~ stopped /\ state_ \in {"WaitingSnapshot", "Syncing", "Live"}) =>
        /\ ws_client_ # 0
        /\ ws[ws_client_] = "open"

\* C39: at most one upstream WS connection delivers frames to the feed at
\* any time: once schedule_reconnect() has run, the previous connection
\* delivers no further depth update or trade to on_ws_message.  Every frame
\* handed to on_ws_message comes from the client ws_client_ points to, and
\* no two clients are connected at once.
C39_OnlyCurrentClientDelivers ==
    /\ op.h \in {"depth", "trade"} => op.a = ws_client_
    /\ Cardinality({c \in 1..MaxConns : ws[c] = "open"}) <= 1

\* C40: size_approx() stays in range under concurrency: whichever thread calls
\* it while the producer and the consumer run, the value it returns is between
\* 0 and Capacity, never the wrapped difference of a tail read before the head
\* moved past it.
C40_SizeApproxInRange ==
    sz_ret # NoSize => sz_ret <= Capacity

====
